---- MODULE Spec2Model ----
(***************************************************************************)
(* PkgLens: the dependency-graph resolver, its semantic-version helpers,   *)
(* the registry metadata cache and the duplicate-detection pass.           *)
(*                                                                         *)
(* Strings of the program are kept as strings where they are compared as   *)
(* a whole (package names, versions, ranges) and as token sequences where  *)
(* the program builds them by interpolation (issue messages).              *)
(***************************************************************************)
EXTENDS Integers, Sequences, FiniteSets, TLC

(***************************************************************************)
(* Bounds of the model.                                                    *)
(***************************************************************************)
\* the option maxDepth is drawn from 0..MaxDepthCeil
MaxDepthCeil == 2
\* a manifest declares at most MaxDeps dependencies
MaxDeps == 2
\* issue lists handed to mergeIssues have at most MaxIssues elements
MaxIssues == 3

\* the most versions recorded for one package in a version map under test
MaxVersions == 3

(***************************************************************************)
(* Vocabulary.                                                             *)
(***************************************************************************)
\* null / undefined of the program
Null == "null"

Names == {"A", "B", "C", "D"}

Runs == {1, 2}

(***************************************************************************)
(* The semver library, on the versions and ranges of the vocabulary.       *)
(***************************************************************************)
\* position of a version in semantic-version order; 0 for a string that is
\* not a version
VersionKey(v) ==
  CASE v = "1.0.0" -> 100
    [] v = "1.1.0" -> 110
    [] v = "2.0.0-beta" -> 199
    [] v = "2.0.0" -> 200
    [] OTHER -> 0

\* semver.valid
semverValid(v) == VersionKey(v) > 0

\* semver.major
semverMajor(v) == IF v = "2.0.0-beta" THEN 2 ELSE VersionKey(v) \div 100

\* semver.prerelease(v) is not null
IsPrerelease(v) == v = "2.0.0-beta"

\* the major.minor.patch of a version
VersionTuple(v) == IF v = "2.0.0-beta" THEN "2.0.0" ELSE v

\* String.prototype.trim
Trim(s) == IF s = " " THEN "" ELSE s

\* semver.validRange: the range in comparator form, Null for no range
validRange(r) ==
  CASE r = "*" -> "*"
    [] r = "^1.0.0" -> ">=1.0.0 <2.0.0-0"
    [] r = "^2.0.0" -> ">=2.0.0 <3.0.0-0"
    [] r = "^3.0.0" -> ">=3.0.0 <4.0.0-0"
    [] r = "^2.0.0-beta" -> ">=2.0.0-beta <3.0.0-0"
    [] r = "2.0.0-beta" -> "2.0.0-beta"
    [] r = "~1.0.0" -> ">=1.0.0 <1.1.0-0"
    [] r = ">=1.0.0" -> ">=1.0.0"
    [] r = "1.0.0" -> "1.0.0"
    [] r = "2.0.0" -> "2.0.0"
    [] OTHER -> Null

\* the half-open interval of version keys a comparator-form range accepts;
\* the bound <2.0.0-0 lies below every pre-release of 2.0.0
RangeInterval(n) ==
  CASE n = "*" -> <<1, 1000>>
    [] n = ">=1.0.0 <2.0.0-0" -> <<100, 199>>
    [] n = ">=2.0.0 <3.0.0-0" -> <<200, 300>>
    [] n = ">=3.0.0 <4.0.0-0" -> <<300, 400>>
    [] n = ">=2.0.0-beta <3.0.0-0" -> <<199, 300>>
    [] n = "2.0.0-beta" -> <<199, 200>>
    [] n = ">=1.0.0 <1.1.0-0" -> <<100, 110>>
    [] n = ">=1.0.0" -> <<100, 1000>>
    [] n = "1.0.0" -> <<100, 101>>
    [] n = "2.0.0" -> <<200, 201>>
    [] n = "^1.0.0" -> <<100, 199>>
    [] n = "^2.0.0" -> <<200, 300>>
    [] n = "^3.0.0" -> <<300, 400>>
    [] n = "~1.0.0" -> <<100, 110>>
    [] OTHER -> <<0, 0>>

\* the major.minor.patch tuples on which a comparator of the range carries a
\* pre-release tag
PrereleaseTuples(n) ==
  CASE n = ">=1.0.0 <2.0.0-0" -> {"2.0.0"}
    [] n = ">=2.0.0 <3.0.0-0" -> {"3.0.0"}
    [] n = ">=3.0.0 <4.0.0-0" -> {"4.0.0"}
    [] n = ">=2.0.0-beta <3.0.0-0" -> {"2.0.0", "3.0.0"}
    [] n = "2.0.0-beta" -> {"2.0.0"}
    [] n = ">=1.0.0 <1.1.0-0" -> {"1.1.0"}
    [] OTHER -> {}

\* semver.satisfies without includePrerelease: a pre-release satisfies a
\* range only when a comparator on its own tuple carries a pre-release tag
semverSatisfies(v, n) ==
  /\ semverValid(v)
  /\ RangeInterval(n)[1] <= VersionKey(v)
  /\ VersionKey(v) < RangeInterval(n)[2]
  /\ IsPrerelease(v) => VersionTuple(v) \in PrereleaseTuples(n)

\* mutant: the least satisfying version is taken
minSatisfying(versions, n) ==
  LET ok == {v \in versions : semverSatisfies(v, n)}
  IN  IF ok = {} THEN Null
      ELSE CHOOSE v \in ok : \A w \in ok : VersionKey(v) <= VersionKey(w)

\* semver.maxSatisfying over a set of versions
maxSatisfying(versions, n) ==
  LET ok == {v \in versions : semverSatisfies(v, n)}
  IN  IF ok = {} THEN Null
      ELSE CHOOSE v \in ok : \A w \in ok : VersionKey(w) <= VersionKey(v)

(***************************************************************************)
(* semverUtils.ts                                                          *)
(***************************************************************************)
normalizeRange(range) ==
  LET cleaned == Trim(range)
  IN  IF cleaned = "" \/ cleaned = "*" THEN "*"
      ELSE IF validRange(cleaned) # Null THEN validRange(cleaned) ELSE cleaned

\* mutant: when no version satisfies the range the greatest version is taken
findMaxOrGreatest(range, versions) ==
  IF range = "" \/ versions = {} THEN Null
  ELSE IF maxSatisfying(versions, normalizeRange(range)) # Null
       THEN maxSatisfying(versions, normalizeRange(range))
       ELSE maxSatisfying(versions, "*")

findMaxSatisfying(range, versions) ==
  IF range = "" \/ versions = {} THEN Null
  ELSE maxSatisfying(versions, normalizeRange(range))

isOutdated(resolved, latest) ==
  IF resolved = Null \/ latest = Null THEN FALSE
  ELSE IF ~semverValid(resolved) \/ ~semverValid(latest) THEN FALSE
  ELSE VersionKey(resolved) < VersionKey(latest)

\* !value for a string or null: null and the empty string are falsy
Falsy(value) == value = Null \/ value = ""

\* mutant: the label of a version behind the latest leaves the latest out
LabelWithoutLatest(resolved, latest) == <<resolved>>

\* `${resolved} (última ${latest})`
LabelWithLatest(resolved, latest) == <<resolved, "(última", latest, ")">>

formatVersionLabel(resolved, latest) ==
  IF Falsy(resolved) /\ Falsy(latest) THEN <<"sin datos">>
  ELSE IF Falsy(resolved)
       THEN <<"no resuelta (última", IF latest = Null THEN "desconocida" ELSE latest, ")">>
  ELSE IF Falsy(latest) \/ resolved = latest THEN <<resolved>>
  ELSE LabelWithLatest(resolved, latest)

\* String.prototype.startsWith, on the ranges of the vocabulary
StartsWith(s, prefix) ==
  CASE prefix = "^" -> s \in {"^1.0.0", "^2.0.0", "^3.0.0", "^2.0.0-beta", "^latest"}
    [] prefix = "~" -> s \in {"~1.0.0", "~latest"}
    [] prefix = ">=" ->
         s \in {">=1.0.0", ">=1.0.0 <2.0.0-0", ">=2.0.0 <3.0.0-0",
                ">=3.0.0 <4.0.0-0", ">=1.0.0 <1.1.0-0", ">=2.0.0-beta <3.0.0-0"}
    [] OTHER -> FALSE

\* normalized.replace(/^>=\s*/, '')
StripGte(n) ==
  CASE n = ">=1.0.0" -> "1.0.0"
    [] n = ">=1.0.0 <2.0.0-0" -> "1.0.0 <2.0.0-0"
    [] n = ">=2.0.0 <3.0.0-0" -> "2.0.0 <3.0.0-0"
    [] n = ">=3.0.0 <4.0.0-0" -> "3.0.0 <4.0.0-0"
    [] n = ">=1.0.0 <1.1.0-0" -> "1.0.0 <1.1.0-0"
    [] n = ">=2.0.0-beta <3.0.0-0" -> "2.0.0-beta <3.0.0-0"
    [] OTHER -> n

\* a VersionIssue; affectedVersions is <<>> when the field is absent
Issue(type, message, affected) ==
  [type |-> type, message |-> message, affectedVersions |-> affected]

\* mutant: the second operand is always taken
CoalesceSecond(a, b) == b

\* a ?? b
Coalesce(a, b) == IF a # Null THEN a ELSE b

buildRangeAdvice(range, resolvedVersion, latestVersion) ==
  LET normalized == normalizeRange(range)
      preferredVersion == Coalesce(resolvedVersion, latestVersion)
      normalizedVersion == IF semverValid(normalized) THEN normalized ELSE Null
      exact ==
        IF normalizedVersion # Null /\ ~Falsy(preferredVersion)
        THEN <<Issue("advice", <<"exact-pin", normalizedVersion, "^", preferredVersion>>, <<>>)>>
        ELSE <<>>
      tilde ==
        IF StartsWith(normalized, "~") /\ ~Falsy(preferredVersion)
        THEN <<Issue("advice", <<"patch-only", normalized, "^", preferredVersion>>, <<>>)>>
        ELSE <<>>
      gte ==
        IF /\ StartsWith(normalized, ">=")
           /\ ~Falsy(preferredVersion)
           /\ semverValid(StripGte(normalized))
        THEN <<Issue("advice", <<"open-lower-bound", normalized, "^", preferredVersion>>, <<>>)>>
        ELSE <<>>
      caret ==
        IF /\ StartsWith(normalized, "^")
           /\ ~Falsy(latestVersion)
           /\ ~Falsy(resolvedVersion)
           /\ semverValid(latestVersion)
           /\ semverValid(resolvedVersion)
           /\ semverMajor(latestVersion) > semverMajor(resolvedVersion)
        THEN <<Issue("advice", <<"new-major", latestVersion, "^", latestVersion>>, <<>>)>>
        ELSE <<>>
  IN  IF normalized = "*"
      THEN IF ~Falsy(preferredVersion)
           THEN <<Issue("advice", <<"open-range", "^", preferredVersion>>, <<>>)>>
           ELSE <<Issue("advice", <<"open-range", "bounded">>, <<>>)>>
      ELSE exact \o tilde \o gte \o caret

\* the elements of a sequence
Range(seq) == {seq[i] : i \in 1..Len(seq)}

\* Number to string, as a template literal prints it
ToStr(n) ==
  CASE n = 0 -> "0" [] n = 1 -> "1" [] n = 2 -> "2" [] n = 3 -> "3"
    [] n = 4 -> "4" [] OTHER -> "many"

\* mutant: the recommendation is the first version seen, valid or not
HighestFirstSeen(versionList) == versionList[1]

\* versionList.filter(semver.valid).sort(semver.rcompare)[0], Null when the
\* filtered list is empty
HighestValid(versionList) ==
  LET valid == {v \in Range(versionList) : semverValid(v)}
  IN  IF valid = {} THEN Null
      ELSE CHOOSE v \in valid : \A w \in valid : VersionKey(w) <= VersionKey(v)

\* the issues collectDuplicateIssues builds for one package (the body of its
\* "versions.size > 1" branch); versionList is Array.from(versions)
DuplicateIssuesOf(versionList) ==
  LET recommended == HighestValid(versionList)
      dup == Issue("duplicate", <<"multiple-versions">> \o versionList, versionList)
  IN  IF recommended # Null
      THEN <<dup, Issue("advice", <<"unify", "^", recommended, ToStr(Len(versionList))>>, <<>>)>>
      ELSE <<dup>>

\* mutant: the size test lets a single version through
IsDuplicatedFromOne(versionList) == Len(versionList) > 0

\* the test of collectDuplicateIssues that makes a package a key of its result
IsDuplicated(versionList) == Len(versionList) > 1

\* collectDuplicateIssues; resolvedVersions maps a package name to its Set of
\* versions, kept as the sequence of its elements in insertion order
collectDuplicateIssues(resolvedVersions) ==
  [pkg \in {p \in DOMAIN resolvedVersions : IsDuplicated(resolvedVersions[p])} |->
     DuplicateIssuesOf(resolvedVersions[pkg])]

\* mutant: find compares the type only
IssueFoundByType(merged, issue) ==
  \E i \in 1..Len(merged) : merged[i].type = issue.type

\* mutant: find never matches, every incoming issue is pushed
IssueFoundNever(merged, issue) == FALSE

\* merged.find((item) => item.type === issue.type && item.message === issue.message)
IssueFound(merged, issue) ==
  \E i \in 1..Len(merged) :
     merged[i].type = issue.type /\ merged[i].message = issue.message

\* the forEach of mergeIssues, from the k-th incoming issue on
RECURSIVE MergeFrom(_, _, _)
MergeFrom(merged, incoming, k) ==
  IF k > Len(incoming) THEN merged
  ELSE MergeFrom(IF IssueFound(merged, incoming[k]) THEN merged
                 ELSE Append(merged, incoming[k]),
                 incoming, k + 1)

mergeIssues(existing, incoming) ==
  IF Len(incoming) = 0 THEN existing ELSE MergeFrom(existing, incoming, 1)

(***************************************************************************)
(* State.                                                                  *)
(***************************************************************************)
VARIABLES
  \* the npm registry: what a fetch of each package answers now
  registry,
  \* the packages whose fetch fails with a network error
  down,
  \* semverUtils.ts: metadataCache
  metadataCache,
  \* per caller, the getPackageMetadata call it has in flight
  call,
  \* per package, the metadata of the first fetch that succeeded since the
  \* cache was last cleared or primed (history)
  firstOk,
  \* per run: "idle", "running", "done" or "raised"
  phase,
  \* per run, the arguments of resolvePackageGraph
  manifest,
  options,
  \* per run, the direct dependencies still to resolve
  todo,
  \* per run, the resolveDependency calls in progress, innermost last
  stack,
  \* per run, the roots resolved so far
  tree,
  \* per run, context.visited and context.edges
  ctxVisited,
  ctxEdges,
  \* per run, the value resolvePackageGraph returned
  result,
  \* the arguments and results of a pure function under test
  input,
  output,
  applied,
  \* the state of the App component (its useState cells) and the runs its
  \* handlers are awaiting
  app

vars ==
  <<registry, down, metadataCache, call, firstOk, phase, manifest,
    options, todo, stack, tree, ctxVisited, ctxEdges, result, input, output,
    applied, app>>

registryVars == <<registry, down>>
runVars == <<phase, manifest, options, todo, stack, tree, ctxVisited, ctxEdges, result>>
pureVars == <<input, output, applied>>
appVars == <<app>>

(***************************************************************************)
(* The registry.                                                           *)
(***************************************************************************)
\* a dependency map entry, in declaration order
Dep(name, range) == [name |-> name, range |-> range]

\* one entry of metadata.versions
VersionMeta(deps, peers, deprecated) ==
  [dependencies |-> deps, peerDependencies |-> peers, deprecated |-> deprecated]

\* the registry answers 404 for a package it does not hold
Missing == [name |-> Null]

BaseRegistry ==
  [n \in Names |->
     CASE n = "A" ->
            [name |-> "A", latest |-> "1.0.0",
             versions |-> ("1.0.0" :> VersionMeta(<<Dep("B", "1.0.0")>>, <<>>, Null))]
       [] n = "B" ->
            [name |-> "B", latest |-> "2.0.0",
             versions |-> ("1.0.0" :> VersionMeta(<<Dep("A", "^1.0.0")>>, <<>>, "deprecated")
                           @@ "2.0.0" :> VersionMeta(<<>>, <<>>, Null))]
       [] n = "C" ->
            [name |-> "C", latest |-> "1.0.0",
             versions |-> ("1.0.0" :> VersionMeta(<<Dep("B", "^2.0.0"), Dep("D", "*")>>,
                                                  <<Dep("B", "^1.0.0")>>, Null))]
       [] OTHER -> Missing]

\* what the registry holds for a package after a new version of it is published
Published(n) ==
  CASE n = "A" ->
         [name |-> "A", latest |-> "1.1.0",
          versions |-> ("1.0.0" :> VersionMeta(<<Dep("B", "1.0.0")>>, <<>>, Null)
                        @@ "1.1.0" :> VersionMeta(<<>>, <<>>, Null))]
    [] n = "D" ->
         [name |-> "D", latest |-> "1.0.0",
          versions |-> ("1.0.0" :> VersionMeta(<<>>, <<>>, Null))]
    [] OTHER -> BaseRegistry[n]

(***************************************************************************)
(* semverUtils.ts: the registry client.                                    *)
(***************************************************************************)
NoCall == [st |-> "idle", name |-> Null, value |-> Missing, error |-> <<>>, fetched |-> FALSE, later |-> FALSE]

\* fetchPackageFromRegistry: how the fetch of pkgName ends now. A network
\* error rejects inside fetch; a response that is not ok raises the message
\* with the package name and the status.
FetchOutcome(pkgName) ==
  IF pkgName \in down THEN [ok |-> FALSE, error |-> <<"Failed to fetch">>]
  ELSE IF registry[pkgName] = Missing
       THEN [ok |-> FALSE, error |-> <<"No se pudo consultar", pkgName, "404">>]
       ELSE [ok |-> TRUE, value |-> registry[pkgName]]

\* metadataCache.has(pkgName)
CacheHas(pkgName) == pkgName \in DOMAIN metadataCache

\* metadataCache.set(pkgName, metadata)
CacheSet(cache, pkgName, metadata) ==
  [n \in DOMAIN cache \cup {pkgName} |-> IF n = pkgName THEN metadata ELSE cache[n]]

\* the cache after getPackageMetadata's fetch of pkgName has answered metadata
CacheAfterFetch(cache, pkgName, metadata) == CacheSet(cache, pkgName, metadata)

\* getPackageMetadata up to its first await: a cache hit returns the cached
\* entry, a miss issues the fetch
GetPackageMetadata(c, pkgName) ==
  /\ call[c].st = "idle"
  /\ call' = [call EXCEPT ![c] =
       IF CacheHas(pkgName)
       THEN [NoCall EXCEPT !.st = "returned", !.name = pkgName,
                           !.value = metadataCache[pkgName],
                           !.later = pkgName \in DOMAIN firstOk]
       ELSE [NoCall EXCEPT !.st = "fetching", !.name = pkgName, !.fetched = TRUE,
                           !.later = pkgName \in DOMAIN firstOk]]
  /\ UNCHANGED <<metadataCache, firstOk>>

\* the fetch answers with success: the metadata is cached and returned
FetchOk(c) ==
  /\ call[c].st = "fetching"
  /\ FetchOutcome(call[c].name).ok
  /\ LET metadata == FetchOutcome(call[c].name).value
     IN  /\ metadataCache' = CacheAfterFetch(metadataCache, call[c].name, metadata)
         /\ firstOk' = IF call[c].name \in DOMAIN firstOk THEN firstOk
                       ELSE CacheSet(firstOk, call[c].name, metadata)
         /\ call' = [call EXCEPT ![c].st = "returned", ![c].value = metadata]
  /\ UNCHANGED <<registryVars, runVars, pureVars, appVars>>

\* mutant: the catch swallows the error and returns empty metadata
FetchFailSwallowed(c) ==
  /\ call[c].st = "fetching"
  /\ ~FetchOutcome(call[c].name).ok
  /\ call' = [call EXCEPT ![c].st = "returned",
                          ![c].value = [name |-> call[c].name, latest |-> Null,
                                        versions |-> <<>>]]
  /\ UNCHANGED <<metadataCache, firstOk, registryVars, runVars, pureVars, appVars>>

\* mutant: the catch neither rethrows nor returns, the call never settles
FetchFailPending(c) ==
  /\ call[c].st = "fetching"
  /\ ~FetchOutcome(call[c].name).ok
  /\ UNCHANGED vars

\* the fetch fails: the error is logged and rethrown, nothing is cached
FetchFail(c) ==
  /\ call[c].st = "fetching"
  /\ ~FetchOutcome(call[c].name).ok
  /\ call' = [call EXCEPT ![c].st = "raised", ![c].error = FetchOutcome(call[c].name).error]
  /\ UNCHANGED <<metadataCache, firstOk, registryVars, runVars, pureVars, appVars>>

\* primePackageCache
PrimePackageCache(pkgName, metadata) ==
  /\ metadataCache' = CacheSet(metadataCache, pkgName, metadata)
  /\ firstOk' = [n \in DOMAIN firstOk \ {pkgName} |-> firstOk[n]]
  /\ call' = [c \in DOMAIN call |->
                IF call[c].name = pkgName THEN [call[c] EXCEPT !.later = FALSE] ELSE call[c]]
  /\ UNCHANGED <<registryVars, runVars, pureVars, appVars>>

\* clearPackageCache
ClearPackageCache ==
  /\ metadataCache # <<>>
  /\ metadataCache' = <<>>
  /\ firstOk' = <<>>
  /\ call' = [c \in DOMAIN call |-> [call[c] EXCEPT !.later = FALSE]]
  /\ UNCHANGED <<registryVars, runVars, pureVars, appVars>>

(***************************************************************************)
(* VersionResolver: resolveDependency and resolvePackageGraph.             *)
(***************************************************************************)
\* describeRange: the label of the normalized range
describeRange(range) ==
  LET normalized == normalizeRange(range)
  IN  CASE normalized = "*" -> "any"
        [] StartsWith(normalized, "^") -> "caret"
        [] StartsWith(normalized, "~") -> "tilde"
        [] StartsWith(normalized, ">=") -> "open-lower-bound"
        [] semverValid(normalized) -> "exact"
        [] OTHER -> "custom"

\* { ...base, ...over }: an entry of over replaces the range of the entry
\* of base with its name and keeps that entry's place; the others follow
MergeDeps(base, over) ==
  LET overOf(n) == CHOOSE d \in Range(over) : d.name = n
      names(seq) == {seq[i].name : i \in 1..Len(seq)}
      kept == [i \in 1..Len(base) |->
                 IF base[i].name \in names(over) THEN overOf(base[i].name) ELSE base[i]]
  IN  kept \o SelectSeq(over, LAMBDA d : d.name \notin names(base))

\* mutant: the devDependencies are always taken in
DirectDepsWithDev(pkg, opts) == MergeDeps(pkg.dependencies, pkg.devDependencies)

\* the combined direct-dependency set of a manifest
DirectDeps(pkg, opts) ==
  IF opts.includeDev THEN MergeDeps(pkg.dependencies, pkg.devDependencies)
  ELSE pkg.dependencies

\* the dependencies resolveDependency expands for a resolved version
ChildDeps(versionMeta, opts) ==
  IF opts.includePeer
  THEN MergeDeps(versionMeta.dependencies, versionMeta.peerDependencies)
  ELSE versionMeta.dependencies

\* mutant: the limit is tested one level late
DepthExceededLate(depth, maxDepth) == depth > maxDepth + 1

\* step 1 of resolveDependency: the depth limit
DepthExceeded(depth, maxDepth) == depth > maxDepth

NodeId(name, tag) == <<name, tag>>

Node(name, tag, range, resolved, latest, issues, children, edges) ==
  [name |-> name, nodeId |-> NodeId(name, tag), declaredRange |-> range,
   resolvedVersion |-> resolved, latestVersion |-> latest,
   rangeDescription |-> describeRange(range), issues |-> issues,
   children |-> children, edges |-> edges]

DepthLimitNode(name, range) ==
  Node(name, "depth-limit", range, Null, Null,
       <<Issue("error", <<"depth limit reached">>, <<>>)>>, <<>>, <<>>)

\* step 2 of resolveDependency, when getPackageMetadata raised
ErrorNode(name, range, error) ==
  Node(name, "unknown", range, Null, Null, <<Issue("error", error, <<>>)>>, <<>>, <<>>)

\* mutant: one context.visited for the whole module, every run records into
\* what the other run has recorded
RecordVisitedShared(visited, name, version) ==
  LET other == IF visited = ctxVisited[1] THEN ctxVisited[2] ELSE ctxVisited[1]
      names == DOMAIN visited \cup DOMAIN other \cup {name}
      of(m, n) == IF n \in DOMAIN m THEN m[n] ELSE <<>>
      both(n) == of(visited, n) \o
                 SelectSeq(of(other, n), LAMBDA v : v \notin Range(of(visited, n)))
  IN  [n \in names |->
         IF n = name /\ version \notin Range(both(n)) THEN Append(both(n), version)
         ELSE both(n)]

\* context.visited[name].add(version)
RecordVisited(visited, name, version) ==
  IF name \notin DOMAIN visited THEN CacheSet(visited, name, <<version>>)
  ELSE IF version \in Range(visited[name]) THEN visited
  ELSE [visited EXCEPT ![name] = Append(@, version)]

\* mutant: the edge is recorded from the child to the parent
EdgeReversed(fromId, toId) ==
  [from |-> toId, to |-> fromId, fromLabel |-> toId[1], toLabel |-> fromId[1]]

\* { from: node id, to: child id, fromLabel, toLabel }
Edge(fromId, toId) ==
  [from |-> fromId, to |-> toId, fromLabel |-> fromId[1], toLabel |-> toId[1]]

\* the vulnerability collaborator: the advisories it knows
VulnerabilityIssues(name, version) ==
  IF name \in {"A", "B"} /\ version = "1.0.0"
  THEN <<Issue("vulnerable", <<"advisory", name, "1.0.0">>, <<"1.0.0">>)>>
  ELSE <<>>

\* steps 6 and 7 of resolveDependency: the issues of a fetched node
NodeIssues(f) ==
  LET outdated ==
        IF isOutdated(f.resolvedVersion, f.latestVersion)
        THEN <<Issue("outdated", <<"outdated", f.resolvedVersion, f.latestVersion>>, <<>>)>>
        ELSE <<>>
      deprecated ==
        IF f.deprecated # Null
        THEN <<Issue("vulnerable", <<f.deprecated>>, <<>>)>>
        ELSE <<>>
      s6 == mergeIssues(f.issues, VulnerabilityIssues(f.name, f.resolvedVersion))
      s7a == mergeIssues(s6, buildRangeAdvice(f.declaredRange, f.resolvedVersion, f.latestVersion))
      s7b == mergeIssues(s7a, outdated)
  IN  mergeIssues(s7b, deprecated)

\* the nodeId of the node a frame becomes
FrameId(f) ==
  NodeId(f.name, IF f.resolvedVersion # Null THEN f.resolvedVersion ELSE "unknown")

\* step 8 of resolveDependency: the node's view of context.edges
EdgesFrom(edges, id) == SelectSeq(edges, LAMBDA e : e.from = id)

\* steps 6 to 9 of resolveDependency: the completed node
BuildNode(f, edges) ==
  Node(f.name, FrameId(f)[2], f.declaredRange, f.resolvedVersion, f.latestVersion,
       NodeIssues(f), f.children, EdgesFrom(edges, FrameId(f)))

\* steps 3 to 5 of resolveDependency, before the first child: the frame of a
\* dependency whose metadata has arrived
ResolvedFrame(f, metadata, opts) ==
  LET resolved == findMaxSatisfying(f.declaredRange, DOMAIN metadata.versions)
  IN  [f EXCEPT
         !.st = "expand",
         !.resolvedVersion = resolved,
         !.latestVersion = metadata.latest,
         !.issues = IF resolved = Null
                    THEN <<Issue("conflict", <<"no version satisfies", f.declaredRange>>, <<>>)>>
                    ELSE <<>>,
         !.deprecated = IF resolved = Null THEN Null
                        ELSE metadata.versions[resolved].deprecated,
         !.todo = IF resolved = Null THEN <<>>
                  ELSE ChildDeps(metadata.versions[resolved], opts)]

NewFrame(dep, depth) ==
  [name |-> dep.name, declaredRange |-> dep.range, depth |-> depth, st |-> "await",
   resolvedVersion |-> Null, latestVersion |-> Null, deprecated |-> Null,
   issues |-> <<>>, todo |-> <<>>, children |-> <<>>]

\* applyDuplicateIssues on one node and its subtree
RECURSIVE ApplyDuplicatesToNode(_, _)
ApplyDuplicatesToNode(node, duplicates) ==
  [node EXCEPT
     !.issues = IF node.name \in DOMAIN duplicates
                THEN mergeIssues(node.issues, duplicates[node.name])
                ELSE node.issues,
     !.children = [i \in 1..Len(node.children) |->
                     ApplyDuplicatesToNode(node.children[i], duplicates)]]

applyDuplicateIssues(nodes, duplicates) ==
  [i \in 1..Len(nodes) |-> ApplyDuplicatesToNode(nodes[i], duplicates)]

\* the value resolvePackageGraph returns for the roots and the context
GraphResult(roots, edges, visited) ==
  LET duplicates == collectDuplicateIssues(visited)
  IN  [tree |-> applyDuplicateIssues(roots, duplicates),
       edges |-> edges,
       duplicates |-> duplicates]

NoResult == [tree |-> <<>>, edges |-> <<>>, duplicates |-> <<>>]

(***************************************************************************)
(* One run of resolvePackageGraph, a step per stretch between two awaits.  *)
(***************************************************************************)
Top(r) == stack[r][Len(stack[r])]

Pop(stk) == SubSeq(stk, 1, Len(stk) - 1)

\* mutant: the edge to a returning child is put in front of context.edges
DeliverEdgeFirst(r, below, node) ==
  IF below = <<>>
  THEN /\ tree' = [tree EXCEPT ![r] = Append(@, node)]
       /\ stack' = [stack EXCEPT ![r] = <<>>]
       /\ UNCHANGED ctxEdges
  ELSE LET parent == below[Len(below)]
       IN  /\ stack' = [stack EXCEPT ![r] =
                 [below EXCEPT ![Len(below)].children = Append(@, node)]]
           /\ ctxEdges' = [ctxEdges EXCEPT ![r] =
                 <<Edge(FrameId(parent), node.nodeId)>> \o @]
           /\ UNCHANGED tree

\* a resolveDependency call returns node to its caller: resolvePackageGraph
\* collects a root, a parent frame keeps the child and appends the edge to it;
\* below is the stack without the returning call's frame
Deliver(r, below, node) ==
  IF below = <<>>
  THEN /\ tree' = [tree EXCEPT ![r] = Append(@, node)]
       /\ stack' = [stack EXCEPT ![r] = <<>>]
       /\ UNCHANGED ctxEdges
  ELSE LET parent == below[Len(below)]
       IN  /\ stack' = [stack EXCEPT ![r] =
                 [below EXCEPT ![Len(below)].children = Append(@, node)]]
           /\ ctxEdges' = [ctxEdges EXCEPT ![r] =
                 Append(@, Edge(FrameId(parent), node.nodeId))]
           /\ UNCHANGED tree

\* resolvePackageGraph(pkg, opts) is called: a fresh context, the direct
\* dependencies
StartRun(r, pkg, opts) ==
  /\ phase[r] = "idle"
  /\ phase' = [phase EXCEPT ![r] = "running"]
  /\ manifest' = [manifest EXCEPT ![r] = pkg]
  /\ options' = [options EXCEPT ![r] = opts]
  /\ todo' = [todo EXCEPT ![r] = DirectDeps(pkg, opts)]
  /\ stack' = [stack EXCEPT ![r] = <<>>]
  /\ tree' = [tree EXCEPT ![r] = <<>>]
  /\ ctxVisited' = [ctxVisited EXCEPT ![r] = <<>>]
  /\ ctxEdges' = [ctxEdges EXCEPT ![r] = <<>>]
  /\ UNCHANGED <<result, metadataCache, call, firstOk, registryVars, pureVars>>

\* the next resolveDependency call, of a root or of the next child of the
\* innermost call: the depth limit answers at once, otherwise the call asks
\* for the metadata
Descend(r) ==
  /\ phase[r] = "running"
  /\ call[r].st = "idle"
  /\ \/ stack[r] = <<>> /\ todo[r] # <<>>
     \/ stack[r] # <<>> /\ Top(r).st = "expand" /\ Top(r).todo # <<>>
  /\ LET atRoot == stack[r] = <<>>
         dep == IF atRoot THEN Head(todo[r]) ELSE Head(Top(r).todo)
         depth == IF atRoot THEN 0 ELSE Top(r).depth + 1
         rest == IF atRoot THEN stack[r]
                 ELSE [stack[r] EXCEPT ![Len(stack[r])].todo = Tail(@)]
     IN  /\ todo' = IF atRoot THEN [todo EXCEPT ![r] = Tail(@)] ELSE todo
         /\ IF DepthExceeded(depth, options[r].maxDepth)
            THEN /\ Deliver(r, rest, DepthLimitNode(dep.name, dep.range))
                 /\ UNCHANGED <<call, metadataCache, firstOk>>
            ELSE /\ stack' = [stack EXCEPT ![r] = Append(rest, NewFrame(dep, depth))]
                 /\ GetPackageMetadata(r, dep.name)
                 /\ UNCHANGED <<tree, ctxEdges>>
  /\ UNCHANGED <<phase, manifest, options, ctxVisited, result, registryVars, pureVars, appVars>>

\* the await of getPackageMetadata ends: a raise makes the terminal error
\* node, the metadata resolves the version and records it in context.visited
Resume(r) ==
  /\ phase[r] = "running"
  /\ stack[r] # <<>>
  /\ Top(r).st = "await"
  /\ call[r].st \in {"returned", "raised"}
  /\ call' = [call EXCEPT ![r] = NoCall]
  /\ IF call[r].st = "raised"
     THEN /\ Deliver(r, Pop(stack[r]), ErrorNode(Top(r).name, Top(r).declaredRange, call[r].error))
          /\ UNCHANGED ctxVisited
     ELSE LET f == ResolvedFrame(Top(r), call[r].value, options[r])
          IN  /\ stack' = [stack EXCEPT ![r][Len(stack[r])] = f]
              /\ ctxVisited' = IF f.resolvedVersion = Null THEN ctxVisited
                               ELSE [ctxVisited EXCEPT ![r] =
                                       RecordVisited(@, f.name, f.resolvedVersion)]
              /\ UNCHANGED <<tree, ctxEdges>>
  /\ UNCHANGED <<phase, manifest, options, todo, result, metadataCache, firstOk,
                 registryVars, pureVars, appVars>>

\* the innermost call has resolved all its children: it builds its node and
\* returns it
Complete(r) ==
  /\ phase[r] = "running"
  /\ call[r].st = "idle"
  /\ stack[r] # <<>>
  /\ Top(r).st = "expand"
  /\ Top(r).todo = <<>>
  /\ Deliver(r, Pop(stack[r]), BuildNode(Top(r), ctxEdges[r]))
  /\ UNCHANGED <<phase, manifest, options, todo, ctxVisited, result, metadataCache,
                 call, firstOk, registryVars, pureVars, appVars>>

\* every root is resolved: the duplicate pass, and the result is returned
Finish(r) ==
  /\ phase[r] = "running"
  /\ stack[r] = <<>>
  /\ todo[r] = <<>>
  /\ phase' = [phase EXCEPT ![r] = "done"]
  /\ result' = [result EXCEPT ![r] = GraphResult(tree[r], ctxEdges[r], ctxVisited[r])]
  /\ UNCHANGED <<manifest, options, todo, stack, tree, ctxVisited, ctxEdges,
                 metadataCache, call, firstOk, registryVars, pureVars, appVars>>

(***************************************************************************)
(* resolvePackageGraph run alone: the call chain of one run from its first *)
(* resolveDependency call to its last, no other run in between.            *)
(***************************************************************************)
RECURSIVE ResolveDependencyAlone(_, _, _, _)
RECURSIVE ResolveEachAlone(_, _, _, _, _)

\* the one element of a singleton set (each intermediate result is bound as
\* the element of a singleton, so that it is computed once)
The(S) == CHOOSE x \in S : TRUE

\* resolveDependency(dep, depth, context): the node and the context after it
ResolveDependencyAlone(dep, depth, ctx, opts) ==
  IF DepthExceeded(depth, opts.maxDepth)
  THEN [node |-> DepthLimitNode(dep.name, dep.range), ctx |-> ctx]
  ELSE LET fetched == FetchOutcome(dep.name)
       IN  IF ~fetched.ok
           THEN [node |-> ErrorNode(dep.name, dep.range, fetched.error), ctx |-> ctx]
           ELSE The(UNION UNION
                  {{{[node |-> BuildNode([f EXCEPT !.children = kids.nodes], kids.ctx.edges),
                      ctx |-> kids.ctx] :
                       kids \in {ResolveEachAlone(f.todo, depth + 1, FrameId(f), seen, opts)}} :
                     seen \in {[ctx EXCEPT !.visited =
                                  IF f.resolvedVersion = Null THEN @
                                  ELSE RecordVisited(@, f.name, f.resolvedVersion)]}} :
                   f \in {ResolvedFrame(NewFrame(dep, depth), fetched.value, opts)}})

\* the dependencies of one parent (parentId <<>> for the roots) resolved one
\* after the other, an edge appended to the context after each child
ResolveEachAlone(deps, depth, parentId, ctx, opts) ==
  IF deps = <<>> THEN [nodes |-> <<>>, ctx |-> ctx]
  ELSE The(UNION UNION
         {{{[nodes |-> <<first.node>> \o rest.nodes, ctx |-> rest.ctx] :
              rest \in {ResolveEachAlone(Tail(deps), depth, parentId, linked, opts)}} :
            linked \in {IF parentId = <<>> THEN first.ctx
                        ELSE [first.ctx EXCEPT
                                !.edges = Append(@, Edge(parentId, first.node.nodeId))]}} :
          first \in {ResolveDependencyAlone(Head(deps), depth, ctx, opts)}})

\* resolvePackageGraph(pkg, opts) run alone against the registry as it is
ResolvePackageGraphAlone(pkg, opts) ==
  The({GraphResult(roots.nodes, roots.ctx.edges, roots.ctx.visited) :
         roots \in {ResolveEachAlone(DirectDeps(pkg, opts), 0, <<>>,
                                     [visited |-> <<>>, edges |-> <<>>], opts)}})

(***************************************************************************)
(* The inputs.                                                             *)
(***************************************************************************)
\* the sequences over S without a repeated name, of at most n elements
RECURSIVE DepSeqs(_, _)
DepSeqs(S, n) ==
  IF n = 0 THEN {<<>>}
  ELSE LET shorter == DepSeqs(S, n - 1)
       IN  shorter \cup
           {Append(q, d) : <<q, d>> \in
              {x \in shorter \X S : \A i \in 1..Len(x[1]) : x[1][i].name # x[2].name}}

DepPool ==
  {Dep("A", "^1.0.0"), Dep("B", "^2.0.0"), Dep("B", "^3.0.0"), Dep("C", "*"),
   Dep("D", "^1.0.0")}

DevChoices == {<<>>, <<Dep("B", "^1.0.0")>>}

Manifests ==
  {[dependencies |-> d, devDependencies |-> v] : d \in DepSeqs(DepPool, MaxDeps), v \in DevChoices}

EmptyManifest == [dependencies |-> <<>>, devDependencies |-> <<>>]

OptionSets ==
  {[includeDev |-> d, includePeer |-> p, maxDepth |-> m] :
     d \in BOOLEAN, p \in BOOLEAN, m \in 0..MaxDepthCeil}

DefaultOptions == [includeDev |-> FALSE, includePeer |-> TRUE, maxDepth |-> MaxDepthCeil]

DownChoices == {{}, {"B"}}

(***************************************************************************)
(* The App component: the state it is constructed with.                    *)
(***************************************************************************)
\* a manifest, a graph or a summary that is null
Absent == [absent |-> TRUE]

\* DEFAULT_ANALYSIS: dependencies and devDependencies
DEFAULT_ANALYSIS ==
  [dependencies |-> <<Dep("D", "^1.0.0")>>, devDependencies |-> <<Dep("B", "^2.0.0")>>]

\* DEFAULT_TARGET
DEFAULT_TARGET ==
  [dependencies |-> <<Dep("B", "^2.0.0")>>, devDependencies |-> <<>>]

\* the useState initial values; no error is <<>>, no awaited run is 0 or <<>>
AppInitial ==
  [analysisPackage |-> DEFAULT_ANALYSIS,
   analysisResult |-> Absent,
   analysisLoading |-> FALSE,
   analysisPendingChanges |-> TRUE,
   analysisError |-> <<>>,
   analysisIncludeDev |-> FALSE,
   analysisRun |-> 0,
   currentPackage |-> DEFAULT_ANALYSIS,
   targetPackage |-> DEFAULT_TARGET,
   comparisonResults |-> [current |-> Absent, target |-> Absent],
   comparisonLoading |-> FALSE,
   comparisonPendingChanges |-> TRUE,
   comparisonError |-> <<>>,
   comparisonIncludeDev |-> FALSE,
   comparisonRuns |-> <<>>]

InitIdle ==
  /\ app = AppInitial
  /\ registry = BaseRegistry
  /\ metadataCache = <<>>
  /\ manifest = [r \in Runs |-> EmptyManifest]
  /\ options = [r \in Runs |-> DefaultOptions]
  /\ call = [c \in Runs |-> NoCall]
  /\ firstOk = <<>>
  /\ phase = [r \in Runs |-> "idle"]
  /\ todo = [r \in Runs |-> <<>>]
  /\ stack = [r \in Runs |-> <<>>]
  /\ tree = [r \in Runs |-> <<>>]
  /\ ctxVisited = [r \in Runs |-> <<>>]
  /\ ctxEdges = [r \in Runs |-> <<>>]
  /\ result = [r \in Runs |-> NoResult]

InitPure ==
  /\ input = <<>>
  /\ output = <<>>
  /\ applied = 0

(***************************************************************************)
(* Spec: one run of resolvePackageGraph against a registry that stays as   *)
(* it is.                                                                  *)
(***************************************************************************)
Init ==
  /\ InitIdle
  /\ InitPure
  /\ down \in DownChoices

\* the steps of a run that has started
Step(r) ==
  \/ Descend(r)
  \/ FetchOk(r)
  \/ FetchFail(r)
  \/ Resume(r)
  \/ Complete(r)
  \/ Finish(r)

Next ==
  \/ \E pkg \in Manifests, opts \in OptionSets :
       StartRun(1, pkg, opts) /\ UNCHANGED appVars
  \/ \E r \in Runs : Step(r)

Spec == Init /\ [][Next]_vars

(***************************************************************************)
(* FairSpec: one run, on the manifests with at most one dependency and the *)
(* one that reaches every package. The event loop runs every continuation  *)
(* that is ready and every fetch is answered, with a success or a failure. *)
(***************************************************************************)
LiveManifests ==
  {m \in Manifests : m.devDependencies = <<>> /\ Len(m.dependencies) <= 1}
  \cup {[dependencies |-> <<Dep("A", "^1.0.0"), Dep("C", "*")>>, devDependencies |-> <<>>]}

NextLive ==
  \/ \E pkg \in LiveManifests, opts \in OptionSets :
       StartRun(1, pkg, opts) /\ UNCHANGED appVars
  \/ \E r \in Runs : Step(r)

FairSpec == Init /\ [][NextLive]_vars /\ \A r \in Runs : WF_vars(Step(r))

\* a sequence without its i-th element
RemoveAt(seq, i) == SubSeq(seq, 1, i - 1) \o SubSeq(seq, i + 1, Len(seq))

\* a manifest and the manifests that declare one dependency less
OneLess(m) ==
  {[m EXCEPT !.dependencies = RemoveAt(@, i)] : i \in 1..Len(m.dependencies)}

(***************************************************************************)
(* SpecPair: two runs started together with the same options, as the       *)
(* comparison of two manifests starts them, sharing the metadata cache.    *)
(***************************************************************************)
\* the comparison starts one run per manifest, with the same options
StartPair(pkg1, pkg2, opts) ==
  /\ \A r \in Runs : phase[r] = "idle"
  /\ phase' = [r \in Runs |-> "running"]
  /\ manifest' = [r \in Runs |-> IF r = 1 THEN pkg1 ELSE pkg2]
  /\ options' = [r \in Runs |-> opts]
  /\ todo' = [r \in Runs |-> DirectDeps(IF r = 1 THEN pkg1 ELSE pkg2, opts)]
  /\ stack' = [r \in Runs |-> <<>>]
  /\ tree' = [r \in Runs |-> <<>>]
  /\ ctxVisited' = [r \in Runs |-> <<>>]
  /\ ctxEdges' = [r \in Runs |-> <<>>]
  /\ UNCHANGED <<result, metadataCache, call, firstOk, registryVars, pureVars>>

NextPair ==
  \/ \E pkg1 \in Manifests : \E pkg2 \in {pkg1} \cup OneLess(pkg1) :
       \E d \in BOOLEAN :
         StartPair(pkg1, pkg2, [DefaultOptions EXCEPT !.includeDev = d]) /\ UNCHANGED appVars
  \/ \E r \in Runs : Step(r)

SpecPair == Init /\ [][NextPair]_vars

(***************************************************************************)
(* SpecMerge: mergeIssues applied to issue lists, then applied again to    *)
(* its own result with the same incoming list.                             *)
(***************************************************************************)
\* the sequences over S of at most n elements
RECURSIVE SeqsUpTo(_, _)
SeqsUpTo(S, n) ==
  IF n = 0 THEN {<<>>}
  ELSE LET shorter == SeqsUpTo(S, n - 1)
       IN  shorter \cup {Append(q, x) : <<q, x>> \in shorter \X S}

\* issues that agree in type and message and differ in affectedVersions, in
\* the type only, in the message only, and in both
IssuePool ==
  {Issue("advice", <<"m1">>, <<>>), Issue("advice", <<"m1">>, <<"1.0.0">>),
   Issue("duplicate", <<"m1">>, <<>>), Issue("advice", <<"m2">>, <<>>)}

InitMerge ==
  /\ InitIdle
  /\ down = {}
  /\ \E e \in SeqsUpTo(IssuePool, MaxIssues), i \in SeqsUpTo(IssuePool, MaxIssues) :
        input = [existing |-> e, incoming |-> i]
  /\ output = <<>>
  /\ applied = 0

\* mergeIssues(existing, incoming)
MergeOnce ==
  /\ applied = 0
  /\ output' = <<mergeIssues(input.existing, input.incoming)>>
  /\ applied' = 1
  /\ UNCHANGED <<input, registryVars, metadataCache, call, firstOk, runVars, appVars>>

\* mergeIssues(merged, incoming), merged the result of the first call
MergeAgain ==
  /\ applied = 1
  /\ output' = Append(output, mergeIssues(output[1], input.incoming))
  /\ applied' = 2
  /\ UNCHANGED <<input, registryVars, metadataCache, call, firstOk, runVars, appVars>>

NextMerge == MergeOnce \/ MergeAgain

SpecMerge == InitMerge /\ [][NextMerge]_vars

(***************************************************************************)
(* SpecCache: callers of getPackageMetadata, concurrent with each other,   *)
(* with publications to the registry and with the two cache maintenance    *)
(* functions.                                                              *)
(***************************************************************************)
CacheNames == {"A", "D"}

\* a caller calls getPackageMetadata(pkgName)
ClientCall(c, pkgName) ==
  /\ GetPackageMetadata(c, pkgName)
  /\ UNCHANGED <<registryVars, runVars, pureVars, appVars>>

\* the caller's await ends, with the value or the error
ClientSettle(c) ==
  /\ call[c].st \in {"returned", "raised"}
  /\ call' = [call EXCEPT ![c] = NoCall]
  /\ UNCHANGED <<metadataCache, firstOk, registryVars, runVars, pureVars, appVars>>

\* a new version of a package is published to the registry
Publish(pkgName) ==
  /\ registry[pkgName] # Published(pkgName)
  /\ registry' = [registry EXCEPT ![pkgName] = Published(pkgName)]
  /\ UNCHANGED <<down, metadataCache, call, firstOk, runVars, pureVars, appVars>>

InitCache ==
  /\ InitIdle
  /\ InitPure
  /\ down \in {{}, {"A"}}

NextCache ==
  \/ \E c \in Runs, n \in CacheNames : ClientCall(c, n)
  \/ \E c \in Runs : FetchOk(c)
  \/ \E c \in Runs : FetchFail(c)
  \/ \E c \in Runs : ClientSettle(c)
  \/ \E n \in CacheNames : Publish(n)
  \/ \E n \in CacheNames : PrimePackageCache(n, Published(n))
  \/ ClearPackageCache

SpecCache == InitCache /\ [][NextCache]_vars

(***************************************************************************)
(* diffUtils.ts                                                            *)
(***************************************************************************)
\* mutant: the devDependencies are always assigned over the dependencies
cloneEntriesWithDev(source, includeDev) ==
  IF source = Absent THEN <<>>
  ELSE LET base == MergeDeps(source.dependencies, source.devDependencies)
       IN  [n \in {base[i].name : i \in 1..Len(base)} |->
              (CHOOSE d \in Range(base) : d.name = n).range]

\* cloneEntries: the name -> range map of a manifest, the devDependencies
\* assigned over the dependencies when includeDev is set
cloneEntries(source, includeDev) ==
  IF source = Absent THEN <<>>
  ELSE LET base == IF includeDev
                   THEN MergeDeps(source.dependencies, source.devDependencies)
                   ELSE source.dependencies
       IN  [n \in {base[i].name : i \in 1..Len(base)} |->
              (CHOOSE d \in Range(base) : d.name = n).range]

diffPackageDependencies(baseline, target, includeDev) ==
  LET baselineEntries == cloneEntries(baseline, includeDev)
      targetEntries == cloneEntries(target, includeDev)
      baselineKeys == DOMAIN baselineEntries
      targetKeys == DOMAIN targetEntries
  IN  [added |-> Cardinality({n \in targetKeys : n \notin baselineKeys}),
       removed |-> Cardinality({n \in baselineKeys : n \notin targetKeys}),
       changed |-> Cardinality({n \in targetKeys :
                      n \in baselineKeys /\ baselineEntries[n] # targetEntries[n]})]

\* mutant: the key leaves the node out
IssueKeyWithoutNode(node, issue) == <<issue.type, issue.message>>

\* `${node.nodeId}::${issue.type}::${issue.message}`: no part but the last
\* can hold "::", so the key is the triple
IssueKey(node, issue) == <<node.nodeId, issue.type, issue.message>>

\* collectIssuesFromNode: the keys of a node and of its subtree
RECURSIVE collectIssuesFromNode(_)
collectIssuesFromNode(node) ==
  {IssueKey(node, node.issues[i]) : i \in 1..Len(node.issues)} \cup
  UNION {collectIssuesFromNode(node.children[i]) : i \in 1..Len(node.children)}

collectIssues(graph) ==
  IF graph = Absent THEN {}
  ELSE UNION {collectIssuesFromNode(graph.tree[i]) : i \in 1..Len(graph.tree)}

\* mutant: every key counts, whether the other graph has it or not
KeysOnlyInAll(keys, others) == keys

\* the keys of one graph that the other graph does not have
KeysOnlyIn(keys, others) == {k \in keys : k \notin others}

diffIssueSummary(baseline, target) ==
  IF baseline = Absent /\ target = Absent THEN Absent
  ELSE LET baselineIssues == collectIssues(baseline)
           targetIssues == collectIssues(target)
       IN  [introduced |-> Cardinality(KeysOnlyIn(targetIssues, baselineIssues)),
            resolved |-> Cardinality(KeysOnlyIn(baselineIssues, targetIssues)),
            baselineTotal |-> Cardinality(baselineIssues),
            targetTotal |-> Cardinality(targetIssues)]

(***************************************************************************)
(* createAnalysisReport and what it sorts and counts.                      *)
(***************************************************************************)
\* mutant: the severity order is the alphabetical order of the types
IssueSortOrderAlphabetical ==
  <<"advice", "conflict", "duplicate", "error", "outdated", "vulnerable">>

\* ISSUE_SORT_ORDER
IssueSortOrder == <<"vulnerable", "error", "conflict", "outdated", "duplicate", "advice">>

\* sortedIssues.slice(0, 12)
TopIssuesLimit == 12

\* Array.prototype.indexOf, from 0, -1 when x is not an element
IndexOf(seq, x) ==
  IF \E i \in 1..Len(seq) : seq[i] = x
  THEN (CHOOSE i \in 1..Len(seq) : seq[i] = x /\ \A j \in 1..(i - 1) : seq[j] # x) - 1
  ELSE -1

\* the words and values of the messages and the package names, in the order
\* String.prototype.localeCompare gives the texts they stand for
Collation ==
  <<"unify", "advisory", "depth limit reached", "deprecated", "open-lower-bound",
    "patch-only", "open-range", "exact-pin", "Failed to fetch", "new-major",
    "No se pudo consultar", "no version satisfies", "outdated", "multiple-versions",
    "*", "^", ">=1.0.0", ">=1.0.0 <1.1.0-0", ">=1.0.0 <2.0.0-0", ">=2.0.0 <3.0.0-0",
    ">=3.0.0 <4.0.0-0", "~1.0.0", "^1.0.0", "^2.0.0", "^3.0.0",
    "1", "1.0.0", "1.1.0", "2", "2.0.0", "3", "4", "404",
    "A", "B", "bounded", "C", "D", "many">>

\* a.localeCompare(b) < 0 for two words
WordBefore(a, b) == IndexOf(Collation, a) < IndexOf(Collation, b)

\* a.localeCompare(b) < 0 for two messages: the first word that differs
\* decides, a message that is the start of the other comes first
MessageBefore(a, b) ==
  \E k \in 1..Len(b) :
     /\ \A j \in 1..(k - 1) : j <= Len(a) /\ a[j] = b[j]
     /\ \/ k > Len(a)
        \/ k <= Len(a) /\ WordBefore(a[k], b[k])

\* the comparator of sortedIssues is negative: a sorts before b
EntryBefore(a, b) ==
  LET rankA == IndexOf(IssueSortOrder, a.type)
      rankB == IndexOf(IssueSortOrder, b.type)
  IN  IF rankA # rankB THEN rankA < rankB
      ELSE IF a.packageName # b.packageName THEN WordBefore(a.packageName, b.packageName)
      ELSE MessageBefore(a.message, b.message)

\* visit: the nodes in the order visit reaches them, each with its depth and
\* its path
RECURSIVE visit(_, _, _)
visit(nodes, depth, parentPath) ==
  IF nodes = <<>> THEN <<>>
  ELSE LET node == Head(nodes)
           currentPath == Append(parentPath, node.name)
       IN  <<[node |-> node, depth |-> depth, path |-> currentPath]>>
           \o visit(node.children, depth + 1, currentPath)
           \o visit(Tail(nodes), depth, parentPath)

\* the entries visit pushes to issueEntries for one visited node
EntriesOfNode(v) ==
  [i \in 1..Len(v.node.issues) |->
     [packageName |-> v.node.name, nodeId |-> v.node.nodeId,
      type |-> v.node.issues[i].type, message |-> v.node.issues[i].message,
      path |-> v.path]]

\* issueEntries after the visit
RECURSIVE IssueEntries(_)
IssueEntries(visited) ==
  IF visited = <<>> THEN <<>>
  ELSE EntriesOfNode(Head(visited)) \o IssueEntries(Tail(visited))

\* Array.prototype.sort with the comparator of sortedIssues: a stable sort,
\* every entry placed before the first entry it sorts before
RECURSIVE SortEntries(_)
SortEntries(entries) ==
  IF entries = <<>> THEN <<>>
  ELSE LET sorted == SortEntries(SubSeq(entries, 1, Len(entries) - 1))
           last == entries[Len(entries)]
           after == {i \in 1..Len(sorted) : EntryBefore(last, sorted[i])}
           at == IF after = {} THEN Len(sorted) + 1
                 ELSE CHOOSE i \in after : \A j \in after : i <= j
       IN  SubSeq(sorted, 1, at - 1) \o <<last>> \o SubSeq(sorted, at, Len(sorted))

\* mutant: every node counts as a leaf
IsLeafAlways(node) == TRUE

\* node.children.length === 0
IsLeaf(node) == Len(node.children) = 0

createAnalysisReport(graph, metadata) ==
  LET visited == visit(graph.tree, 1, <<>>)
      issueEntries == IssueEntries(visited)
      sortedIssues == SortEntries(issueEntries)
      depths == {visited[i].depth : i \in 1..Len(visited)}
  IN  [metadata |-> metadata,
       summary |->
         [directDependencies |-> Len(graph.tree),
          totalNodes |-> Len(visited),
          uniquePackages |-> Cardinality({visited[i].node.name : i \in 1..Len(visited)}),
          leafNodes |-> Cardinality({i \in 1..Len(visited) : IsLeaf(visited[i].node)}),
          maxDepth |-> IF depths = {} THEN 0
                       ELSE CHOOSE d \in depths : \A e \in depths : e <= d,
          dependencyEdges |-> Len(graph.edges),
          totalIssues |-> Len(issueEntries),
          issuesByType |->
            [t \in Range(IssueSortOrder) |->
               Cardinality({i \in 1..Len(issueEntries) : issueEntries[i].type = t})],
          duplicatePackages |-> Cardinality(DOMAIN graph.duplicates)],
       topIssues |-> SubSeq(sortedIssues, 1,
                            IF Len(sortedIssues) < TopIssuesLimit
                            THEN Len(sortedIssues) ELSE TopIssuesLimit),
       duplicates |-> graph.duplicates,
       tree |-> graph.tree,
       edges |-> graph.edges]

(***************************************************************************)
(* SpecDuplicates: collectDuplicateIssues applied to version maps, with    *)
(* versions that are not semantic versions among them.                     *)
(***************************************************************************)
\* the sequences over S without a repeated element, of at most n elements
RECURSIVE DistinctSeqs(_, _)
DistinctSeqs(S, n) ==
  IF n = 0 THEN {<<>>}
  ELSE LET shorter == DistinctSeqs(S, n - 1)
       IN  shorter \cup {Append(q, x) : <<q, x>> \in {y \in shorter \X S : y[2] \notin Range(y[1])}}

\* recorded versions: two semantic versions and two strings that are none
VersionPool == {"1.0.0", "2.0.0", "next", "beta"}

\* the packages of the version maps
DuplicateNames == {"A", "B"}

InitDuplicates ==
  /\ InitIdle
  /\ down = {}
  /\ input \in [DuplicateNames -> DistinctSeqs(VersionPool, MaxVersions)]
  /\ output = <<>>
  /\ applied = 0

\* collectDuplicateIssues(resolvedVersions)
CollectDuplicates ==
  /\ applied = 0
  /\ output' = collectDuplicateIssues(input)
  /\ applied' = 1
  /\ UNCHANGED <<input, registryVars, metadataCache, call, firstOk, runVars, appVars>>

NextDuplicates == CollectDuplicates

SpecDuplicates == InitDuplicates /\ [][NextDuplicates]_vars

(***************************************************************************)
(* SpecLabel: formatVersionLabel applied to the versions a node can carry. *)
(***************************************************************************)
\* what resolvedVersion and latestVersion can be: null, empty, a version, a
\* dist-tag
LabelPool == {Null, "", "1.0.0", "1.1.0", "2.0.0", "next", "beta", "latest"}

InitLabel ==
  /\ InitIdle
  /\ down = {}
  /\ input \in [resolved : LabelPool, latest : LabelPool]
  /\ output = <<>>
  /\ applied = 0

\* formatVersionLabel(resolved, latest)
FormatLabel ==
  /\ applied = 0
  /\ output' = formatVersionLabel(input.resolved, input.latest)
  /\ applied' = 1
  /\ UNCHANGED <<input, registryVars, metadataCache, call, firstOk, runVars, appVars>>

NextLabel == FormatLabel

SpecLabel == InitLabel /\ [][NextLabel]_vars

(***************************************************************************)
(* SpecAdvice: buildRangeAdvice applied to declared ranges and to the      *)
(* versions resolveDependency hands it.                                    *)
(***************************************************************************)
\* declared ranges: empty, blank, any, caret, tilde, lower bound, exact, and
\* two that are no ranges
AdviceRanges ==
  {"", " ", "*", "^1.0.0", "^2.0.0", "~1.0.0", ">=1.0.0", "1.0.0", "^latest", "latest"}

\* resolvedVersion and latestVersion: null, a version, a dist-tag
AdviceVersions == {Null, "1.0.0", "2.0.0", "next"}

InitAdvice ==
  /\ InitIdle
  /\ down = {}
  /\ input \in [range : AdviceRanges, resolved : AdviceVersions, latest : AdviceVersions]
  /\ output = <<>>
  /\ applied = 0

\* buildRangeAdvice(range, resolvedVersion, latestVersion)
BuildAdvice ==
  /\ applied = 0
  /\ output' = buildRangeAdvice(input.range, input.resolved, input.latest)
  /\ applied' = 1
  /\ UNCHANGED <<input, registryVars, metadataCache, call, firstOk, runVars, appVars>>

NextAdvice == BuildAdvice

SpecAdvice == InitAdvice /\ [][NextAdvice]_vars

(***************************************************************************)
(* SpecSatisfy: findMaxSatisfying applied to a range and a list of         *)
(* published versions.                                                     *)
(***************************************************************************)
SatisfyRanges ==
  {"", " ", "*", "^1.0.0", "^2.0.0", "^3.0.0", "^2.0.0-beta", "2.0.0-beta",
   "~1.0.0", ">=1.0.0", "1.0.0", "latest"}

SatisfyVersions == {"1.0.0", "1.1.0", "2.0.0-beta", "2.0.0", "next"}

InitSatisfy ==
  /\ InitIdle
  /\ down = {}
  /\ input \in [range : SatisfyRanges, versions : SUBSET SatisfyVersions]
  /\ output = <<>>
  /\ applied = 0

\* const resolved = findMaxSatisfying(range, versions)
FindMax ==
  /\ applied = 0
  /\ output' = findMaxSatisfying(input.range, input.versions)
  /\ applied' = 1
  /\ UNCHANGED <<input, registryVars, metadataCache, call, firstOk, runVars, appVars>>

NextSatisfy == FindMax

SpecSatisfy == InitSatisfy /\ [][NextSatisfy]_vars

(***************************************************************************)
(* SpecApp: the analysis zone of the App. The user edits the manifest,     *)
(* toggles includeDev and asks for an analysis; the run of                 *)
(* resolvePackageGraph the handler awaits advances step by step between    *)
(* the user's events.                                                      *)
(***************************************************************************)
\* the manifests the user loads
AppManifests == {DEFAULT_ANALYSIS, DEFAULT_TARGET}

\* const options: ResolveOptions = { includeDev }
AppOptions(includeDev) == [DefaultOptions EXCEPT !.includeDev = includeDev]

\* the first run that is not in progress
FreeRun == CHOOSE r \in Runs : phase[r] = "idle" /\ \A q \in Runs : phase[q] = "idle" => r <= q

UnexpectedError == <<"unexpected error">>

\* an unexpected error propagates out of resolvePackageGraph as a rejected
\* call
Throw(r) ==
  /\ phase[r] = "running"
  /\ call[r].st = "idle"
  /\ phase' = [phase EXCEPT ![r] = "raised"]
  /\ UNCHANGED <<manifest, options, todo, stack, tree, ctxVisited, ctxEdges, result,
                 metadataCache, call, firstOk, registryVars, pureVars, appVars>>

\* mutant: handleAnalyzePackage without the analysisLoading guard
handleAnalyzePackageUnguarded ==
  /\ \E r \in Runs : phase[r] = "idle"
  /\ app' = [app EXCEPT !.analysisLoading = TRUE, !.analysisError = <<>>,
                        !.analysisRun = FreeRun]
  /\ StartRun(FreeRun, app.analysisPackage, AppOptions(app.analysisIncludeDev))

\* handleAnalyzePackage up to its await: nothing while an analysis is
\* loading, otherwise loading is set, the error is cleared and
\* resolvePackageGraph is called with the manifest and includeDev of now
handleAnalyzePackage ==
  IF app.analysisLoading THEN UNCHANGED vars
  ELSE /\ \E r \in Runs : phase[r] = "idle"
       /\ app' = [app EXCEPT !.analysisLoading = TRUE, !.analysisError = <<>>,
                             !.analysisRun = FreeRun]
       /\ StartRun(FreeRun, app.analysisPackage, AppOptions(app.analysisIncludeDev))

\* handleAnalyzePackage after its await, the run returned: the result is
\* stored, pendingChanges and loading are cleared
AnalyzeReturns ==
  /\ app.analysisRun # 0
  /\ phase[app.analysisRun] = "done"
  /\ app' = [app EXCEPT !.analysisResult = result[app.analysisRun],
                        !.analysisPendingChanges = FALSE,
                        !.analysisLoading = FALSE,
                        !.analysisRun = 0]
  /\ phase' = [phase EXCEPT ![app.analysisRun] = "idle"]
  /\ UNCHANGED <<manifest, options, todo, stack, tree, ctxVisited, ctxEdges, result,
                 metadataCache, call, firstOk, registryVars, pureVars>>

\* handleAnalyzePackage after its await, the run raised: catch and finally
AnalyzeRaises ==
  /\ app.analysisRun # 0
  /\ phase[app.analysisRun] = "raised"
  /\ app' = [app EXCEPT !.analysisError = UnexpectedError,
                        !.analysisPendingChanges = TRUE,
                        !.analysisLoading = FALSE,
                        !.analysisRun = 0]
  /\ phase' = [phase EXCEPT ![app.analysisRun] = "idle"]
  /\ UNCHANGED <<manifest, options, todo, stack, tree, ctxVisited, ctxEdges, result,
                 metadataCache, call, firstOk, registryVars, pureVars>>

\* handleAnalysisPackageChange with a manifest that normalizes to pkg
handleAnalysisPackageChange(pkg) ==
  /\ app' = [app EXCEPT !.analysisPackage = pkg,
                        !.analysisPendingChanges = TRUE,
                        !.analysisError = <<>>]
  /\ UNCHANGED <<registryVars, metadataCache, call, firstOk, runVars, pureVars>>

\* handleAnalysisError: the uploader reports a manifest it cannot read
handleAnalysisError(message) ==
  /\ app' = [app EXCEPT !.analysisError = message, !.analysisPendingChanges = TRUE]
  /\ UNCHANGED <<registryVars, metadataCache, call, firstOk, runVars, pureVars>>

\* the onChange of the includeDev checkbox
ToggleAnalysisIncludeDev ==
  /\ app' = [app EXCEPT !.analysisIncludeDev = ~app.analysisIncludeDev,
                        !.analysisPendingChanges = TRUE]
  /\ UNCHANGED <<registryVars, metadataCache, call, firstOk, runVars, pureVars>>

InitApp ==
  /\ InitIdle
  /\ InitPure
  /\ down = {}

NextApp ==
  \/ handleAnalyzePackage
  \/ AnalyzeReturns
  \/ AnalyzeRaises
  \/ \E pkg \in AppManifests : handleAnalysisPackageChange(pkg)
  \/ handleAnalysisError(<<"invalid package.json">>)
  \/ ToggleAnalysisIncludeDev
  \/ \E r \in Runs : Step(r)
  \/ \E r \in Runs : Throw(r)

SpecApp == InitApp /\ [][NextApp]_vars

\* the event loop runs every continuation that is ready and every fetch is
\* answered
FairSpecApp ==
  /\ SpecApp
  /\ \A r \in Runs : WF_vars(Step(r))
  /\ WF_vars(AnalyzeReturns)
  /\ WF_vars(AnalyzeRaises)

(***************************************************************************)
(* SpecAppCompare: the comparison zone of the App. handleComparePackages   *)
(* resolves the current and the target manifest with Promise.all: the two  *)
(* runs advance side by side, the handler continues when both have         *)
(* returned or as soon as one has raised. A run left behind by a failed    *)
(* batch goes on and its outcome is dropped; the model follows the next    *)
(* batch once both runs of the last one have ended, and leaves the         *)
(* includeDev checkbox of the comparison as it is.                         *)
(***************************************************************************)
\* mutant: the catch stores the results of the runs that have returned
CompareRaisesStoring ==
  /\ app.comparisonRuns # <<>>
  /\ \E r \in Runs : phase[r] = "raised"
  /\ app' = [app EXCEPT
       !.comparisonResults =
          [current |-> IF phase[1] = "done" THEN result[1] ELSE @.current,
           target |-> IF phase[2] = "done" THEN result[2] ELSE @.target],
       !.comparisonError = UnexpectedError,
       !.comparisonPendingChanges = TRUE,
       !.comparisonLoading = FALSE,
       !.comparisonRuns = <<>>]
  /\ phase' = [r \in Runs |-> IF phase[r] = "raised" THEN "idle" ELSE phase[r]]
  /\ UNCHANGED <<manifest, options, todo, stack, tree, ctxVisited, ctxEdges, result,
                 metadataCache, call, firstOk, registryVars, pureVars>>

\* handleComparePackages up to its await: nothing while a comparison is
\* loading, otherwise loading is set, the error is cleared and both
\* manifests are handed to resolvePackageGraph
handleComparePackages ==
  IF app.comparisonLoading THEN UNCHANGED vars
  ELSE /\ app' = [app EXCEPT !.comparisonLoading = TRUE, !.comparisonError = <<>>,
                             !.comparisonRuns = <<1, 2>>]
       /\ StartPair(app.currentPackage, app.targetPackage,
                    AppOptions(app.comparisonIncludeDev))

\* handleComparePackages after its await, both runs returned: both results
\* are stored, pendingChanges and loading are cleared
CompareReturns ==
  /\ app.comparisonRuns # <<>>
  /\ \A r \in Runs : phase[r] = "done"
  /\ app' = [app EXCEPT
       !.comparisonResults = [current |-> result[1], target |-> result[2]],
       !.comparisonPendingChanges = FALSE,
       !.comparisonLoading = FALSE,
       !.comparisonRuns = <<>>]
  /\ phase' = [r \in Runs |-> "idle"]
  /\ UNCHANGED <<manifest, options, todo, stack, tree, ctxVisited, ctxEdges, result,
                 metadataCache, call, firstOk, registryVars, pureVars>>

\* handleComparePackages after its await, Promise.all rejected because a run
\* raised: catch and finally
CompareRaises ==
  /\ app.comparisonRuns # <<>>
  /\ \E r \in Runs : phase[r] = "raised"
  /\ app' = [app EXCEPT !.comparisonError = UnexpectedError,
                        !.comparisonPendingChanges = TRUE,
                        !.comparisonLoading = FALSE,
                        !.comparisonRuns = <<>>]
  /\ phase' = [r \in Runs |-> IF phase[r] = "raised" THEN "idle" ELSE phase[r]]
  /\ UNCHANGED <<manifest, options, todo, stack, tree, ctxVisited, ctxEdges, result,
                 metadataCache, call, firstOk, registryVars, pureVars>>

\* a run of a batch that was rejected ends: nobody awaits its outcome
RunAbandoned(r) ==
  /\ app.comparisonRuns = <<>>
  /\ phase[r] \in {"done", "raised"}
  /\ phase' = [phase EXCEPT ![r] = "idle"]
  /\ UNCHANGED <<manifest, options, todo, stack, tree, ctxVisited, ctxEdges, result,
                 metadataCache, call, firstOk, registryVars, pureVars, appVars>>

\* handleCurrentPackageChange with a manifest that normalizes to pkg
handleCurrentPackageChange(pkg) ==
  /\ app' = [app EXCEPT !.currentPackage = pkg,
                        !.comparisonPendingChanges = TRUE,
                        !.comparisonError = <<>>]
  /\ UNCHANGED <<registryVars, metadataCache, call, firstOk, runVars, pureVars>>

\* handleTargetPackageChange with a manifest that normalizes to pkg
handleTargetPackageChange(pkg) ==
  /\ app' = [app EXCEPT !.targetPackage = pkg,
                        !.comparisonPendingChanges = TRUE,
                        !.comparisonError = <<>>]
  /\ UNCHANGED <<registryVars, metadataCache, call, firstOk, runVars, pureVars>>

\* handleComparisonError: an uploader reports a manifest it cannot read
handleComparisonError(message) ==
  /\ app' = [app EXCEPT !.comparisonError = message, !.comparisonPendingChanges = TRUE]
  /\ UNCHANGED <<registryVars, metadataCache, call, firstOk, runVars, pureVars>>

NextAppCompare ==
  \/ handleComparePackages
  \/ CompareReturns
  \/ CompareRaises
  \/ \E r \in Runs : RunAbandoned(r)
  \/ \E pkg \in AppManifests : handleCurrentPackageChange(pkg)
  \/ \E pkg \in AppManifests : handleTargetPackageChange(pkg)
  \/ handleComparisonError(<<"invalid package.json">>)
  \/ \E r \in Runs : Step(r)
  \/ \E r \in Runs : Throw(r)

SpecAppCompare == InitApp /\ [][NextAppCompare]_vars

(***************************************************************************)
(* SpecCompare: the values the views derive from two manifests and their   *)
(* resolved graphs: the dependency diff, the issue diff and the report.    *)
(***************************************************************************)
\* the manifests with at most one dependency and no devDependencies
SmallManifests ==
  {m \in Manifests : Len(m.dependencies) <= 1 /\ m.devDependencies = <<>>}

\* the options of the compared runs: no depth at all, or the deepest
CompareOptions == {o \in OptionSets : o.maxDepth \in {0, MaxDepthCeil}}

\* the targets a baseline is compared with: itself, itself less one
\* dependency, a small manifest, or none
CompareTargets(baseline) ==
  IF baseline = Absent THEN SmallManifests \cup {Absent}
  ELSE {baseline} \cup OneLess(baseline) \cup SmallManifests \cup {Absent}

\* the graph the views hold for a manifest
GraphOf(pkg, opts) ==
  IF pkg = Absent THEN Absent ELSE ResolvePackageGraphAlone(pkg, opts)

InitCompare ==
  /\ InitIdle
  /\ down \in DownChoices
  /\ \E b \in Manifests \cup {Absent}, opts \in CompareOptions :
       \E t \in CompareTargets(b) :
          input = [baseline |-> b, target |-> t, options |-> opts,
                   baselineGraph |-> GraphOf(b, opts), targetGraph |-> GraphOf(t, opts)]
  /\ output = <<>>
  /\ applied = 0

\* the view computes diffPackageDependencies
DiffDependencies ==
  /\ applied = 0
  /\ output' = [kind |-> "dependencyDiff",
                value |-> diffPackageDependencies(input.baseline, input.target,
                                                  input.options.includeDev)]
  /\ applied' = 1
  /\ UNCHANGED <<input, registryVars, metadataCache, call, firstOk, runVars, appVars>>

\* the view computes diffIssueSummary
DiffIssues ==
  /\ applied = 0
  /\ output' = [kind |-> "issueDiff",
                value |-> diffIssueSummary(input.baselineGraph, input.targetGraph)]
  /\ applied' = 1
  /\ UNCHANGED <<input, registryVars, metadataCache, call, firstOk, runVars, appVars>>

\* the report view computes createAnalysisReport for the graph it shows
CreateReport ==
  /\ applied = 0
  /\ input.baselineGraph # Absent
  /\ output' = [kind |-> "report",
                value |-> createAnalysisReport(input.baselineGraph, input.options)]
  /\ applied' = 1
  /\ UNCHANGED <<input, registryVars, metadataCache, call, firstOk, runVars, appVars>>

NextCompare == DiffDependencies \/ DiffIssues \/ CreateReport

SpecCompare == InitCompare /\ [][NextCompare]_vars

(***************************************************************************)
(* Reading a tree.                                                         *)
(***************************************************************************)
\* the nodes of a subtree, each with its depth, the subtree's root at depth k
RECURSIVE Walk(_, _)
Walk(node, k) ==
  {<<k, node>>} \cup
  UNION {Walk(node.children[i], k + 1) : i \in 1..Len(node.children)}

\* the nodes of a tree with their depths, the roots at depth 0
TreeNodes(roots) == UNION {Walk(roots[i], 0) : i \in 1..Len(roots)}

\* the issues of a node that have the given type
IssuesOfType(node, type) == {i \in 1..Len(node.issues) : node.issues[i].type = type}

\* the distinct versions a package is resolved to among the nodes of a tree
ResolvedVersionsIn(roots, name) ==
  {x[2].resolvedVersion : x \in {y \in TreeNodes(roots) :
      y[2].name = name /\ y[2].resolvedVersion # Null}}

Done(r) == phase[r] = "done"

(***************************************************************************)
(* Claims.                                                                 *)
(***************************************************************************)
\* C1: when the registry fetch fails for a direct dependency, its root is a
\* terminal node name@unknown with resolvedVersion null, no children and one
\* error issue carrying the failure message, the call returns, and the other
\* direct dependencies are resolved as they are for the manifest without the
\* failing dependency: same roots, same edges, same duplicates.
C1_FetchFailureIsolated ==
  /\ \A r \in Runs : Done(r) =>
        LET dd == DirectDeps(manifest[r], options[r])
        IN  /\ Len(result[r].tree) = Len(dd)
            /\ \A i \in 1..Len(dd) :
                  ~FetchOutcome(dd[i].name).ok =>
                    LET root == result[r].tree[i]
                    IN  /\ root.nodeId = NodeId(dd[i].name, "unknown")
                        /\ root.resolvedVersion = Null
                        /\ root.children = <<>>
                        /\ Cardinality(IssuesOfType(root, "error")) = 1
                        /\ \A k \in IssuesOfType(root, "error") :
                              root.issues[k].message = FetchOutcome(dd[i].name).error
  /\ \A r1, r2 \in Runs :
        (Done(r1) /\ Done(r2) /\ options[r1] = options[r2]) =>
          LET dd1 == DirectDeps(manifest[r1], options[r1])
              dd2 == DirectDeps(manifest[r2], options[r2])
          IN  \A i \in 1..Len(dd1) :
                (~FetchOutcome(dd1[i].name).ok /\ dd2 = RemoveAt(dd1, i)) =>
                  /\ result[r2].tree = RemoveAt(result[r1].tree, i)
                  /\ result[r2].edges = result[r1].edges
                  /\ result[r2].duplicates = result[r1].duplicates

\* C1 witness: a run whose direct dependency failed beside two siblings that
\* resolved with children, and the run of the manifest without it
C1_Witness ==
  /\ Done(1) /\ Done(2)
  /\ LET dd1 == DirectDeps(manifest[1], options[1])
         dd2 == DirectDeps(manifest[2], options[2])
     IN  \E i \in 1..Len(dd1) :
           /\ ~FetchOutcome(dd1[i].name).ok
           /\ dd2 = RemoveAt(dd1, i)
           /\ Len(dd2) >= 1
           /\ result[1].tree[i].nodeId[2] = "unknown"
           /\ result[2].edges # <<>>

\* C2: in every returned tree, with maxDepth = d and the roots at depth 0, no
\* node deeper than d has children, every node at depth d+1 is a terminal
\* node name@depth-limit with exactly one issue of type error, and no node
\* lies deeper than d+1.
C2_DepthLimit ==
  \A r \in Runs : Done(r) =>
    \A x \in TreeNodes(result[r].tree) :
      LET k == x[1]
          node == x[2]
          d == options[r].maxDepth
      IN  /\ k <= d + 1
          /\ k > d => node.children = <<>>
          /\ k = d + 1 =>
                /\ node.nodeId = NodeId(node.name, "depth-limit")
                /\ node.resolvedVersion = Null
                /\ Cardinality(IssuesOfType(node, "error")) = 1

\* C2 witness: a returned tree with maxDepth >= 1 that was cut at the limit
C2_Witness ==
  \E r \in Runs :
    /\ Done(r)
    /\ options[r].maxDepth >= 1
    /\ \E x \in TreeNodes(result[r].tree) :
          x[1] = options[r].maxDepth + 1 /\ x[2].nodeId[2] = "depth-limit"

\* C3: every run of resolvePackageGraph that has started completes, also
\* against the cyclic registry (A depends on B and B on A).
C3_Terminates == \A r \in Runs : (phase[r] = "running") ~> Done(r)

\* C3 witness: a completed run that went round the cycle: a node of a package
\* below a node of the same package
C3_Witness ==
  \E r \in Runs :
    /\ Done(r)
    /\ \E x \in TreeNodes(result[r].tree) :
          \E y \in Walk(x[2], 0) : y[1] >= 2 /\ y[2].name = x[2].name

\* C4: the keys of duplicates are exactly the package names resolved to two
\* or more distinct versions among the nodes of the returned tree.
C4_DuplicateKeys ==
  \A r \in Runs : Done(r) =>
    DOMAIN result[r].duplicates =
      {n \in Names : Cardinality(ResolvedVersionsIn(result[r].tree, n)) >= 2}

\* C4 witness: a result with a duplicated package, a package resolved to one
\* version only and a package never resolved
C4_Witness ==
  \E r \in Runs :
    /\ Done(r)
    /\ DOMAIN result[r].duplicates # {}
    /\ \E n \in Names : Cardinality(ResolvedVersionsIn(result[r].tree, n)) = 1
    /\ \E x \in TreeNodes(result[r].tree) :
          x[2].resolvedVersion = Null /\ x[2].name \notin DOMAIN result[r].duplicates

\* C5: every node of the returned tree whose name is a key of duplicates
\* holds every issue of duplicates[name] in its issues.
C5_DuplicatesOnEveryNode ==
  \A r \in Runs : Done(r) =>
    \A x \in TreeNodes(result[r].tree) :
      x[2].name \in DOMAIN result[r].duplicates =>
        Range(result[r].duplicates[x[2].name]) \subseteq Range(x[2].issues)

\* C5 witness: a duplicated package has an unresolved node and a resolved
\* node that already carried an advice issue of its own
C5_Witness ==
  \E r \in Runs :
    /\ Done(r)
    /\ \E x, y \in TreeNodes(result[r].tree) :
          /\ x[2].name \in DOMAIN result[r].duplicates
          /\ y[2].name = x[2].name
          /\ x[2].resolvedVersion = Null
          /\ y[2].resolvedVersion # Null
          /\ Cardinality(IssuesOfType(y[2], "advice")) >= 2

\* C6: applying applyDuplicateIssues again, with the same duplicates, to the
\* tree it has processed leaves every issue list as it is.
C6_ApplyIdempotent ==
  \A r \in Runs : Done(r) =>
    applyDuplicateIssues(result[r].tree, result[r].duplicates) = result[r].tree

\* C6 witness: a processed tree in which duplicate issues were merged
C6_Witness ==
  \E r \in Runs :
    /\ Done(r)
    /\ result[r].tree # tree[r]
    /\ \E x \in TreeNodes(result[r].tree) : IssuesOfType(x[2], "duplicate") # {}

\* two issues have the same (type, message) pair
SamePair(a, b) == a.type = b.type /\ a.message = b.message

\* the elements of seq at the positions in idx, in order
RECURSIVE PickFrom(_, _, _)
PickFrom(seq, idx, k) ==
  IF k > Len(seq) THEN <<>>
  ELSE (IF k \in idx THEN <<seq[k]>> ELSE <<>>) \o PickFrom(seq, idx, k + 1)

\* the positions of incoming whose pair does not occur in existing
NewIn(existing, incoming) ==
  {k \in 1..Len(incoming) : \A j \in 1..Len(existing) : ~SamePair(existing[j], incoming[k])}

\* among them, the positions whose pair does not occur earlier in incoming
FirstNewIn(existing, incoming) ==
  {k \in NewIn(existing, incoming) : \A j \in 1..(k - 1) : ~SamePair(incoming[j], incoming[k])}

\* C7 as stated: mergeIssues(existing, incoming) is existing followed by
\* exactly the issues of incoming whose (type, message) pair does not occur in
\* existing, in incoming order.
C7_AsStated ==
  applied >= 1 =>
    output[1] = input.existing \o
                PickFrom(input.incoming, NewIn(input.existing, input.incoming), 1)

\* C7 amended: mergeIssues(existing, incoming) is existing followed by the
\* issues of incoming whose (type, message) pair occurs neither in existing nor
\* earlier in incoming, in incoming order.
C7_MergeAppendsFirstNew ==
  applied >= 1 =>
    output[1] = input.existing \o
                PickFrom(input.incoming, FirstNewIn(input.existing, input.incoming), 1)

\* C7 witness: a merge that kept an issue, dropped one found in existing and
\* dropped the repetition of an appended one
C7_Witness ==
  /\ applied >= 1
  /\ input.existing # <<>>
  /\ Len(output[1]) > Len(input.existing)
  /\ FirstNewIn(input.existing, input.incoming) # NewIn(input.existing, input.incoming)
  /\ NewIn(input.existing, input.incoming) # 1..Len(input.incoming)

\* C8: merging the same incoming list into the result of the merge gives the
\* result of the merge.
C8_MergeIdempotent ==
  applied = 2 => output[2] = output[1]

\* C8 witness: the second merge was applied to a first merge that appended
C8_Witness ==
  /\ applied = 2
  /\ Len(output[1]) > Len(input.existing)

\* C9: once getPackageMetadata(name) has succeeded, a later call for the name,
\* with no clearPackageCache or primePackageCache in between, issues no fetch
\* and returns the metadata of that first successful fetch.
C9_LaterCallsSeeFirstFetch ==
  \A c \in Runs :
    (call[c].st = "returned" /\ call[c].later /\ call[c].name \in DOMAIN firstOk) =>
      /\ ~call[c].fetched
      /\ call[c].value = firstOk[call[c].name]

\* a step of getPackageMetadata: its start, or the end of its fetch
GetPackageMetadataStep ==
  \E c \in Runs :
    \/ FetchOk(c)
    \/ FetchFail(c)
    \/ \E n \in Names : ClientCall(c, n)

\* C10: getPackageMetadata never replaces a cache entry with a different
\* value and never removes one, under every interleaving of its calls.
C10_CacheAppendOnly ==
  [][GetPackageMetadataStep =>
       \A n \in DOMAIN metadataCache :
          n \in DOMAIN metadataCache' /\ metadataCache'[n] = metadataCache[n]]_vars

\* the status codes a response that is not ok carries
HttpStatuses == {"404"}

\* an error message names the package and a response status
CarriesNameAndStatus(error, pkgName) ==
  /\ pkgName \in Range(error)
  /\ Range(error) \cap HttpStatuses # {}

\* C11: when the fetch of a package fails, by a network error or by a
\* response that is not ok, getPackageMetadata raises an error carrying the
\* package name and the status, the failure caches nothing, and a call for a
\* name without a cache entry issues a new fetch.
C11_FailureCarriesNameAndStatus ==
  /\ [](\A c \in Runs :
          call[c].st = "raised" => CarriesNameAndStatus(call[c].error, call[c].name))
  /\ [][\A c \in Runs :
          /\ FetchFail(c) => metadataCache' = metadataCache
          /\ \A n \in Names :
               (ClientCall(c, n) /\ ~CacheHas(n)) =>
                  (call'[c].st = "fetching" /\ call'[c].fetched)]_vars

\* the node ids of a tree
NodeIdsIn(roots) == {x[2].nodeId : x \in TreeNodes(roots)}

\* C12: two runs of resolvePackageGraph executed concurrently against a
\* registry that does not change return each the tree, edges and duplicates
\* the run returns alone; every edge of a result joins nodes of that result's
\* tree and every version a duplicate issue lists is one the run's own tree
\* resolved.
C12_RunsDoNotInterfere ==
  \A r \in Runs :
    Done(r) =>
      /\ result[r] = ResolvePackageGraphAlone(manifest[r], options[r])
      /\ \A i \in 1..Len(result[r].edges) :
            /\ result[r].edges[i].from \in NodeIdsIn(result[r].tree)
            /\ result[r].edges[i].to \in NodeIdsIn(result[r].tree)
      /\ \A n \in DOMAIN result[r].duplicates :
            \A k \in 1..Len(result[r].duplicates[n]) :
               Range(result[r].duplicates[n][k].affectedVersions)
                 \subseteq ResolvedVersionsIn(result[r].tree, n)

\* C12 witness: both runs are done, their results differ, and a package is
\* in the tree of both
C12_Witness ==
  /\ \A r \in Runs : Done(r)
  /\ result[1] # result[2]
  /\ \E x \in TreeNodes(result[1].tree), y \in TreeNodes(result[2].tree) :
        x[2].name = y[2].name /\ x[2].resolvedVersion # Null /\ x[1] > 0

\* the nodes of a tree in preorder, a node once for every place it has
RECURSIVE NodeSeq(_)
NodeSeq(nodes) ==
  IF nodes = <<>> THEN <<>>
  ELSE <<Head(nodes)>> \o NodeSeq(Head(nodes).children) \o NodeSeq(Tail(nodes))

\* the issue instances of a tree: a <<nodeId, type, message>> per issue of
\* every node, in preorder
RECURSIVE InstancesOf(_)
InstancesOf(nodeSeq) ==
  IF nodeSeq = <<>> THEN <<>>
  ELSE [i \in 1..Len(Head(nodeSeq).issues) |->
          <<Head(nodeSeq).nodeId, Head(nodeSeq).issues[i].type,
            Head(nodeSeq).issues[i].message>>]
       \o InstancesOf(Tail(nodeSeq))

IssueInstances(graph) == InstancesOf(NodeSeq(graph.tree))

\* the issue diff of a graph with itself has been computed
SelfDiffed ==
  /\ applied = 1
  /\ output.kind = "issueDiff"
  /\ input.baselineGraph # Absent
  /\ input.targetGraph = input.baselineGraph

\* C13 as stated: diffIssueSummary(G, G) has introduced = 0, resolved = 0 and
\* both totals equal to the number of issue instances of G, the sum over the
\* nodes of the tree of the length of the node's issue list.
C13_AsStated ==
  SelfDiffed =>
    output.value = [introduced |-> 0, resolved |-> 0,
                    baselineTotal |-> Len(IssueInstances(input.baselineGraph)),
                    targetTotal |-> Len(IssueInstances(input.baselineGraph))]

\* C13, amended: diffIssueSummary(G, G) has introduced = 0, resolved = 0 and
\* both totals equal to the number of distinct nodeId::type::message keys of
\* G, which is at most the number of issue instances and equal to it exactly
\* when no two instances have the same key.
C13_SelfDiffCountsDistinctKeys ==
  SelfDiffed =>
    LET instances == IssueInstances(input.baselineGraph)
        distinct == Cardinality(Range(instances))
    IN  /\ output.value = [introduced |-> 0, resolved |-> 0,
                           baselineTotal |-> distinct, targetTotal |-> distinct]
        /\ distinct <= Len(instances)
        /\ (distinct = Len(instances)) <=>
              (\A i, j \in 1..Len(instances) : instances[i] = instances[j] => i = j)

\* C13 witness: the self diff of a graph in which a key is on two nodes
C13_Witness ==
  /\ SelfDiffed
  /\ output.value.baselineTotal < Len(IssueInstances(input.baselineGraph))
  /\ output.value.baselineTotal > 0

\* the distinct keys of a graph, none for an absent graph
KeysOf(graph) == IF graph = Absent THEN {} ELSE Range(IssueInstances(graph))

\* C14: diffIssueSummary(baseline, target) is null exactly when both graphs
\* are absent; otherwise introduced counts the keys only in target, resolved
\* the keys only in baseline, an absent graph counts as having no issues, and
\* targetTotal - introduced = baselineTotal - resolved.
C14_IssueDiff ==
  (applied = 1 /\ output.kind = "issueDiff") =>
    LET b == KeysOf(input.baselineGraph)
        t == KeysOf(input.targetGraph)
        v == output.value
    IN  /\ (v = Absent) <=> (input.baselineGraph = Absent /\ input.targetGraph = Absent)
        /\ v # Absent =>
             /\ v.introduced = Cardinality(t \ b)
             /\ v.resolved = Cardinality(b \ t)
             /\ v.targetTotal - v.introduced = v.baselineTotal - v.resolved
             /\ input.baselineGraph = Absent => (v.baselineTotal = 0 /\ v.resolved = 0)
             /\ input.targetGraph = Absent => (v.targetTotal = 0 /\ v.introduced = 0)

\* C14 witness: an issue diff of two graphs, each with keys the other lacks
\* and with keys in common
C14_Witness ==
  /\ applied = 1
  /\ output.kind = "issueDiff"
  /\ output.value # Absent
  /\ output.value.introduced > 0
  /\ output.value.resolved > 0
  /\ output.value.targetTotal > output.value.introduced

\* the names a manifest declares for the diff: those of dependencies, and
\* those of devDependencies when includeDev is set; none for no manifest
DeclaredNames(pkg, includeDev) ==
  IF pkg = Absent THEN {}
  ELSE {pkg.dependencies[i].name : i \in 1..Len(pkg.dependencies)} \cup
       (IF includeDev
        THEN {pkg.devDependencies[i].name : i \in 1..Len(pkg.devDependencies)}
        ELSE {})

\* the range the diff sees for a declared name: the devDependencies entry
\* when includeDev is set and there is one, else the dependencies entry
DeclaredRange(pkg, includeDev, n) ==
  IF includeDev /\ \E i \in 1..Len(pkg.devDependencies) : pkg.devDependencies[i].name = n
  THEN (CHOOSE d \in Range(pkg.devDependencies) : d.name = n).range
  ELSE (CHOOSE d \in Range(pkg.dependencies) : d.name = n).range

\* C15: diffPackageDependencies(baseline, target, includeDev) counts as added
\* the names only in target, as removed the names only in baseline, as
\* changed the names in both with different ranges, over dependencies plus
\* devDependencies only when includeDev is set; the diff of a manifest with
\* itself is all zero, and swapping the manifests swaps added and removed
\* and keeps changed.
C15_DependencyDiff ==
  (applied = 1 /\ output.kind = "dependencyDiff") =>
    LET d == input.options.includeDev
        b == DeclaredNames(input.baseline, d)
        t == DeclaredNames(input.target, d)
        v == output.value
        swapped == diffPackageDependencies(input.target, input.baseline, d)
    IN  /\ v.added = Cardinality(t \ b)
        /\ v.removed = Cardinality(b \ t)
        /\ v.changed = Cardinality({n \in b \cap t :
                          DeclaredRange(input.baseline, d, n) # DeclaredRange(input.target, d, n)})
        /\ input.baseline = input.target => v = [added |-> 0, removed |-> 0, changed |-> 0]
        /\ swapped = [added |-> v.removed, removed |-> v.added, changed |-> v.changed]

\* C15 witness: a dependency diff without includeDev of manifests that
\* differ in their devDependencies too, with a name removed and a range
\* changed
C15_Witness ==
  /\ applied = 1
  /\ output.kind = "dependencyDiff"
  /\ ~input.options.includeDev
  /\ input.baseline # Absent
  /\ input.target # Absent
  /\ input.baseline.devDependencies # input.target.devDependencies
  /\ output.value.removed > 0
  /\ output.value.changed > 0

\* a report has been created
Reported == applied = 1 /\ output.kind = "report"

\* the severity rank of an issue type, vulnerable first
SeverityRank(type) ==
  CASE type = "vulnerable" -> 1
    [] type = "error" -> 2
    [] type = "conflict" -> 3
    [] type = "outdated" -> 4
    [] type = "duplicate" -> 5
    [] type = "advice" -> 6
    [] OTHER -> 0

\* an issue instance <<nodeId, type, message>> comes strictly before another
\* by severity rank, then package name, then message
InstanceBefore(x, y) ==
  \/ SeverityRank(x[2]) < SeverityRank(y[2])
  \/ /\ SeverityRank(x[2]) = SeverityRank(y[2])
     /\ \/ WordBefore(x[1][1], y[1][1])
        \/ x[1][1] = y[1][1] /\ MessageBefore(x[3], y[3])

\* how often x is in a sequence
CountIn(seq, x) == Cardinality({i \in 1..Len(seq) : seq[i] = x})

\* the entries of topIssues as issue instances
TopInstances ==
  [i \in 1..Len(output.value.topIssues) |->
     <<output.value.topIssues[i].nodeId, output.value.topIssues[i].type,
       output.value.topIssues[i].message>>]

\* C16: topIssues has length min(12, number of issue instances), is ordered
\* by severity rank [vulnerable, error, conflict, outdated, duplicate,
\* advice], then package name, then message, holds issue instances of the
\* tree, and no instance left out comes before an instance kept.
C16_TopIssues ==
  Reported =>
    LET all == IssueInstances(input.baselineGraph)
        top == TopInstances
    IN  /\ Len(top) = IF Len(all) < 12 THEN Len(all) ELSE 12
        /\ \A i, j \in 1..Len(top) : i < j => ~InstanceBefore(top[j], top[i])
        /\ \A x \in Range(top) : CountIn(top, x) <= CountIn(all, x)
        /\ \A x \in Range(all) :
             CountIn(top, x) < CountIn(all, x) =>
                \A k \in Range(top) : ~InstanceBefore(x, k)
        /\ \A i \in 1..Len(top) :
             output.value.topIssues[i].packageName = top[i][1][1]

\* C16 witness: a report of a tree with more than twelve issue instances,
\* whose topIssues has neighbours ordered by the type, by the package name
\* and by the message
C16_Witness ==
  /\ Reported
  /\ output.value.summary.totalIssues > 12
  /\ \E i, j, k \in 1..(Len(TopInstances) - 1) :
        /\ TopInstances[i][2] # TopInstances[i + 1][2]
        /\ TopInstances[j][2] = TopInstances[j + 1][2]
        /\ TopInstances[j][1][1] # TopInstances[j + 1][1][1]
        /\ TopInstances[k][2] = TopInstances[k + 1][2]
        /\ TopInstances[k][1][1] = TopInstances[k + 1][1][1]
        /\ TopInstances[k][3] # TopInstances[k + 1][3]

\* C17: in a report, summary.totalIssues is the number of issue instances
\* over all nodes of the tree and the sum of issuesByType over the six issue
\* types; totalNodes counts each tree node once, leafNodes the nodes without
\* children, uniquePackages the distinct names, directDependencies the
\* roots, dependencyEdges the edges and duplicatePackages the keys of
\* duplicates.
C17_SummaryCounts ==
  Reported =>
    LET g == input.baselineGraph
        nodes == NodeSeq(g.tree)
        sum == output.value.summary
        by == sum.issuesByType
    IN  /\ sum.totalIssues = Len(IssueInstances(g))
        /\ DOMAIN by = {"vulnerable", "error", "conflict", "outdated", "duplicate", "advice"}
        /\ sum.totalIssues = by["vulnerable"] + by["error"] + by["conflict"]
                             + by["outdated"] + by["duplicate"] + by["advice"]
        /\ sum.totalNodes = Len(nodes)
        /\ sum.leafNodes = Cardinality({i \in 1..Len(nodes) : nodes[i].children = <<>>})
        /\ sum.uniquePackages = Cardinality({nodes[i].name : i \in 1..Len(nodes)})
        /\ sum.directDependencies = Len(g.tree)
        /\ sum.dependencyEdges = Len(g.edges)
        /\ sum.duplicatePackages = Cardinality(DOMAIN g.duplicates)

\* C17 witness: a report of a tree with inner nodes, a package on several
\* nodes, a duplicated package and issues of four types or more
C17_Witness ==
  /\ Reported
  /\ output.value.summary.leafNodes < output.value.summary.totalNodes
  /\ output.value.summary.uniquePackages < output.value.summary.totalNodes
  /\ output.value.summary.duplicatePackages > 0
  /\ output.value.summary.dependencyEdges > output.value.summary.directDependencies
  /\ Cardinality({t \in DOMAIN output.value.summary.issuesByType :
                    output.value.summary.issuesByType[t] > 0}) >= 4

\* the issues of a type among the issues collected for a package
CollectedOfType(pkg, type) ==
  {i \in 1..Len(output[pkg]) : output[pkg][i].type = type}

\* the duplicate issue of a collected package lists the recorded versions in
\* first-seen order, in its message and in affectedVersions
DuplicateIssueLists(pkg) ==
  /\ Cardinality(CollectedOfType(pkg, "duplicate")) = 1
  /\ \A i \in CollectedOfType(pkg, "duplicate") :
        /\ Tail(output[pkg][i].message) = input[pkg]
        /\ output[pkg][i].affectedVersions = input[pkg]

\* the advice issues of a collected package recommend ^V, V the highest
\* valid version recorded
AdviceRecommendsHighest(pkg) ==
  \A i \in CollectedOfType(pkg, "advice") :
     LET v == output[pkg][i].message[3]
     IN  /\ output[pkg][i].message[2] = "^"
         /\ v \in Range(input[pkg])
         /\ semverValid(v)
         /\ \A w \in Range(input[pkg]) : VersionKey(w) <= VersionKey(v)

\* C18 as stated: for every package with more than one recorded version
\* collectDuplicateIssues emits exactly one duplicate issue listing all
\* recorded versions in first-seen order and exactly one advice issue
\* recommending ^V, V the highest valid version.
C18_AsStated ==
  applied = 1 =>
    \A pkg \in DOMAIN input :
       Len(input[pkg]) > 1 =>
          /\ pkg \in DOMAIN output
          /\ DuplicateIssueLists(pkg)
          /\ Cardinality(CollectedOfType(pkg, "advice")) = 1
          /\ AdviceRecommendsHighest(pkg)

\* C18, amended: the packages collected are those with more than one
\* recorded version; each has exactly one duplicate issue listing all
\* recorded versions in first-seen order, followed by exactly one advice
\* issue recommending ^V when a recorded version is valid, V the highest
\* valid one, and by no advice issue when none is valid; nothing else.
C18_DuplicateAndAdvice ==
  applied = 1 =>
    /\ DOMAIN output = {pkg \in DOMAIN input : Len(input[pkg]) > 1}
    /\ \A pkg \in DOMAIN output :
          /\ DuplicateIssueLists(pkg)
          /\ Cardinality(CollectedOfType(pkg, "advice")) =
                IF \E v \in Range(input[pkg]) : semverValid(v) THEN 1 ELSE 0
          /\ AdviceRecommendsHighest(pkg)
          /\ Len(output[pkg]) = Cardinality(CollectedOfType(pkg, "duplicate"))
                                + Cardinality(CollectedOfType(pkg, "advice"))
          /\ output[pkg][1].type = "duplicate"

\* C18 witness: a package whose first recorded version is not valid and
\* whose highest valid version is not the first valid one, and a package
\* with no valid version, both collected
C18_Witness ==
  /\ applied = 1
  /\ "A" \in DOMAIN output
  /\ "B" \in DOMAIN output
  /\ ~semverValid(input["A"][1])
  /\ Len(output["A"]) = 2
  /\ \E i, j \in 1..Len(input["A"]) :
        i < j /\ semverValid(input["A"][i]) /\ VersionKey(input["A"][i]) < VersionKey(input["A"][j])
  /\ Len(output["B"]) = 1

\* the names a run resolves at depth 0, in declaration order: those of
\* dependencies, then, when includeDev is set, those of devDependencies
\* that dependencies does not declare
RootNames(pkg, opts) ==
  LET deps == [i \in 1..Len(pkg.dependencies) |-> pkg.dependencies[i].name]
      devs == [i \in 1..Len(pkg.devDependencies) |-> pkg.devDependencies[i].name]
  IN  IF opts.includeDev
      THEN deps \o SelectSeq(devs, LAMBDA n : n \notin Range(deps))
      ELSE deps

\* C19: the tree resolvePackageGraph returns has exactly one root per
\* distinct name of the combined direct-dependency set (dependencies, plus
\* devDependencies only when includeDev is true), in declaration order; a
\* name declared only in devDependencies has no root when includeDev is
\* false; an empty manifest gives an empty tree, no edges and no duplicates.
C19_RootsAreDirectDependencies ==
  \A r \in Runs :
    Done(r) =>
      LET names == RootNames(manifest[r], options[r])
          roots == result[r].tree
      IN  /\ Len(roots) = Len(names)
          /\ \A i \in 1..Len(roots) : roots[i].name = names[i]
          /\ \A i, j \in 1..Len(roots) : roots[i].name = roots[j].name => i = j
          /\ manifest[r] = EmptyManifest => result[r] = NoResult

\* C19 witness: a run without includeDev has returned two roots or more for
\* a manifest whose devDependencies declare a name its dependencies lack
C19_Witness ==
  /\ Done(1)
  /\ ~options[1].includeDev
  /\ Len(result[1].tree) >= 2
  /\ \E i \in 1..Len(manifest[1].devDependencies) :
        \A j \in 1..Len(manifest[1].dependencies) :
           manifest[1].dependencies[j].name # manifest[1].devDependencies[i].name

\* a version is missing: null, or the empty string that the code's tests
\* take for null
IsMissing(v) == v = Null \/ v = ""

\* C20: formatVersionLabel(resolved, latest) is the no-data sentinel when
\* both are missing, an 'unresolved' label naming latest when only resolved
\* is missing, exactly resolved when latest is missing or equal to resolved,
\* and otherwise a label containing both resolved and latest; the four cases
\* are exhaustive and disjoint.
C20_VersionLabel ==
  applied = 1 =>
    LET r == input.resolved
        l == input.latest
        noData == IsMissing(r) /\ IsMissing(l)
        unresolved == IsMissing(r) /\ ~IsMissing(l)
        plain == ~IsMissing(r) /\ (IsMissing(l) \/ l = r)
        both == ~IsMissing(r) /\ ~IsMissing(l) /\ l # r
    IN  /\ noData => output = <<"sin datos">>
        /\ unresolved => (output[1] = "no resuelta (última" /\ output[2] = l
                          /\ r \notin Range(output))
        /\ plain => output = <<r>>
        /\ both => (r \in Range(output) /\ l \in Range(output) /\ Len(output) > 2)
        /\ Cardinality({c \in {<<1, noData>>, <<2, unresolved>>, <<3, plain>>, <<4, both>>} :
                          c[2]}) = 1

\* C20 witness: the label of a resolved version that is behind the latest
C20_Witness ==
  /\ applied = 1
  /\ input.resolved = "1.0.0"
  /\ input.latest = "2.0.0"
  /\ output = <<"1.0.0", "(última", "2.0.0", ")">>

\* the versions a message names
VersionsNamed(message) == Range(message) \cap (AdviceVersions \ {Null})

\* C21: for a range that normalizes to "*" (empty, blank or "*")
\* buildRangeAdvice returns exactly one issue, of type advice, whatever
\* resolved and latest are; its message suggests ^resolved when resolved is
\* present, ^latest when only latest is present, and names no version when
\* both are missing.
C21_OpenRangeAdvice ==
  (applied = 1 /\ input.range \in {"", " ", "*"}) =>
    /\ Len(output) = 1
    /\ output[1].type = "advice"
    /\ LET m == output[1].message
       IN  /\ input.resolved # Null =>
                (VersionsNamed(m) = {input.resolved} /\ m[Len(m) - 1] = "^"
                 /\ m[Len(m)] = input.resolved)
           /\ (input.resolved = Null /\ input.latest # Null) =>
                (VersionsNamed(m) = {input.latest} /\ m[Len(m) - 1] = "^"
                 /\ m[Len(m)] = input.latest)
           /\ (input.resolved = Null /\ input.latest = Null) => VersionsNamed(m) = {}

\* C21 witness: the advice of a blank range with a resolved version and a
\* different latest version
C21_Witness ==
  /\ applied = 1
  /\ input.range = " "
  /\ input.resolved = "1.0.0"
  /\ input.latest = "2.0.0"
  /\ Len(output) = 1

\* the members of the versions that satisfy the normalized range
SatisfyingMembers == {v \in input.versions : semverSatisfies(v, normalizeRange(input.range))}

\* C22 as stated: findMaxSatisfying returns null when the range is empty or
\* the versions are empty; otherwise its result is null or a member of the
\* versions that is not a pre-release, satisfies the normalized range and is
\* at least every other non-pre-release member that satisfies it.
C22_AsStated ==
  applied = 1 =>
    /\ (input.range = "" \/ input.versions = {}) => output = Null
    /\ output # Null =>
         /\ output \in SatisfyingMembers
         /\ ~IsPrerelease(output)
         /\ \A w \in SatisfyingMembers :
              ~IsPrerelease(w) => VersionKey(w) <= VersionKey(output)

\* C22: findMaxSatisfying returns null when the range is empty or the
\* versions are empty; otherwise its result is null exactly when no member
\* satisfies the normalized range, and else a member that satisfies it and
\* is at least every other member that satisfies it; the result is a
\* pre-release only when the range itself names a pre-release of the same
\* major.minor.patch.
C22_MaxSatisfying ==
  applied = 1 =>
    /\ (input.range = "" \/ input.versions = {}) => output = Null
    /\ (input.range # "" /\ output = Null) => SatisfyingMembers = {}
    /\ output # Null =>
         /\ output \in SatisfyingMembers
         /\ \A w \in SatisfyingMembers : VersionKey(w) <= VersionKey(output)
         /\ IsPrerelease(output) =>
              VersionTuple(output) \in PrereleaseTuples(normalizeRange(input.range))

\* C22 witness: a caret range picks the greatest of two satisfying versions
\* and leaves out the pre-release and the version of the next major
C22_Witness ==
  /\ applied = 1
  /\ input.range = "^1.0.0"
  /\ input.versions = {"1.0.0", "1.1.0", "2.0.0-beta", "2.0.0"}
  /\ output = "1.1.0"

\* the places of a tree, in preorder, whose node has the given nodeId
PlacesWithId(graph, id) ==
  {i \in 1..Len(NodeSeq(graph.tree)) : NodeSeq(graph.tree)[i].nodeId = id}

\* C23 as stated: in every result of resolvePackageGraph each nodeId that is
\* the from or the to of an edge is the nodeId of exactly one node of the
\* tree, also when the same package at the same resolved version is reached
\* through two different paths.
C23_AsStated ==
  \A r \in Runs : Done(r) =>
    \A i \in 1..Len(result[r].edges) :
      /\ Cardinality(PlacesWithId(result[r], result[r].edges[i].from)) = 1
      /\ Cardinality(PlacesWithId(result[r], result[r].edges[i].to)) = 1

\* C23: in every result of resolvePackageGraph each edge leads from the
\* nodeId of at least one node of the tree to the nodeId of one of that
\* node's children; a package reached at the same version through two paths
\* is two nodes with one nodeId.
C23_EdgeEndpointsAreNodes ==
  \A r \in Runs : Done(r) =>
    \A i \in 1..Len(result[r].edges) :
      \E k \in PlacesWithId(result[r], result[r].edges[i].from) :
        \E c \in 1..Len(NodeSeq(result[r].tree)[k].children) :
          NodeSeq(result[r].tree)[k].children[c].nodeId = result[r].edges[i].to

\* C23 witness: a result in which an edge starts at a nodeId that two nodes
\* of the tree have
C23_Witness ==
  \E r \in Runs :
    /\ Done(r)
    /\ \E i \in 1..Len(result[r].edges) :
         /\ result[r].edges[i].from[2] = "1.0.0"
         /\ Cardinality(PlacesWithId(result[r], result[r].edges[i].from)) = 2

\* the edges from a node to its own children, one per child in child order
OwnEdges(node) ==
  [i \in 1..Len(node.children) |-> Edge(node.nodeId, node.children[i].nodeId)]

\* the last n entries of a sequence
LastOf(seq, n) == SubSeq(seq, Len(seq) - n + 1, Len(seq))

\* the entries of a sequence of edges that start at the given nodeId
StartingAt(edges, id) == SelectSeq(edges, LAMBDA e : e.from = id)

\* C24 as stated: for every node of the returned tree the node's edges view
\* is exactly the edges from that node to its own children, one per child in
\* child order, and holds no edge created while resolving another node.
C24_AsStated ==
  \A r \in Runs : Done(r) =>
    \A k \in 1..Len(NodeSeq(result[r].tree)) :
      NodeSeq(result[r].tree)[k].edges = OwnEdges(NodeSeq(result[r].tree)[k])

\* C24: for every node of the returned tree the node's edges view holds only
\* edges that start at the node's nodeId, is a prefix of the edges of the
\* result that start at that nodeId, and ends with the edges to the node's
\* own children, one per child in child order; it is exactly those when no
\* other node of the tree has the same nodeId, and otherwise may begin with
\* the edges appended for another node with the same nodeId.
C24_EdgesView ==
  \A r \in Runs : Done(r) =>
    \A k \in 1..Len(NodeSeq(result[r].tree)) :
      LET node == NodeSeq(result[r].tree)[k]
          all == StartingAt(result[r].edges, node.nodeId)
      IN  /\ \A i \in 1..Len(node.edges) : node.edges[i].from = node.nodeId
          /\ Len(node.edges) <= Len(all)
          /\ node.edges = SubSeq(all, 1, Len(node.edges))
          /\ Len(node.edges) >= Len(node.children)
          /\ LastOf(node.edges, Len(node.children)) = OwnEdges(node)
          /\ Cardinality(PlacesWithId(result[r], node.nodeId)) = 1 =>
               node.edges = OwnEdges(node)

\* C24 witness: a node with a child whose edges view begins with an edge
\* appended for another node with the same nodeId
C24_Witness ==
  \E r \in Runs :
    /\ Done(r)
    /\ \E k \in 1..Len(NodeSeq(result[r].tree)) :
         LET node == NodeSeq(result[r].tree)[k]
         IN  /\ Len(node.children) = 1
             /\ Len(node.edges) = 2
             /\ node.edges[1].to # node.children[1].nodeId

\* the edges of sibling subtrees in the order the claim gives: for each
\* sibling in turn the edges inside its subtree, then the edge from the
\* parent to it (none for a root; parent is <<>> or <<the parent's nodeId>>)
RECURSIVE EdgesInOrder(_, _)
EdgesInOrder(parent, nodes) ==
  IF nodes = <<>> THEN <<>>
  ELSE EdgesInOrder(<<Head(nodes).nodeId>>, Head(nodes).children)
       \o (IF parent = <<>> THEN <<>> ELSE <<Edge(parent[1], Head(nodes).nodeId)>>)
       \o EdgesInOrder(parent, Tail(nodes))

\* a step of a run leaves context.edges as it is or appends one edge, the
\* edge from the innermost call still open to the child it has just received
EdgesGrowByOne(r) ==
  \/ ctxEdges'[r] = ctxEdges[r]
  \/ /\ Len(ctxEdges'[r]) = Len(ctxEdges[r]) + 1
     /\ SubSeq(ctxEdges'[r], 1, Len(ctxEdges[r])) = ctxEdges[r]
     /\ stack'[r] # <<>>
     /\ Len(stack'[r]) <= Len(stack[r])
     /\ LET parent == stack'[r][Len(stack'[r])]
            e == ctxEdges'[r][Len(ctxEdges'[r])]
        IN  /\ parent.children # <<>>
            /\ e.from = FrameId(parent)
            /\ e.to = parent.children[Len(parent.children)].nodeId
            /\ Len(parent.children) = Len(stack[r][Len(stack'[r])].children) + 1

\* the final edge list is in the claim's order and holds one edge per
\* non-root node
EdgesInDiscoveryOrder ==
  \A r \in Runs : Done(r) =>
    /\ result[r].edges = EdgesInOrder(<<>>, result[r].tree)
    /\ Len(result[r].edges) = Len(NodeSeq(result[r].tree)) - Len(result[r].tree)

\* C25: during one resolution run context.edges only grows, by the edge
\* parent->child appended when the child has fully resolved and returned to
\* its parent; so in the final edge list every edge inside a child's subtree
\* precedes the edge from the parent to that child, the edges of an earlier
\* sibling's subtree precede those of a later sibling, and the list holds
\* exactly one edge per non-root node.
C25_EdgesAppendOnly ==
  /\ [][\A r \in Runs : EdgesGrowByOne(r)]_vars
  /\ []EdgesInDiscoveryOrder

\* C25 witness: a result whose first root has two children, the first of
\* them with a subtree of its own
C25_Witness ==
  \E r \in Runs :
    /\ Done(r)
    /\ result[r].tree # <<>>
    /\ Len(result[r].tree[1].children) = 2
    /\ result[r].tree[1].children[1].children # <<>>
    /\ Len(result[r].edges) >= 3

\* the registry answers for the package and none of its versions satisfies
\* the range
NoVersionSatisfies(name, range) ==
  /\ name \notin down
  /\ registry[name] # Missing
  /\ \A v \in DOMAIN registry[name].versions : ~semverSatisfies(v, normalizeRange(range))

\* the versions context.visited holds for a package
VisitedVersions(r, name) ==
  IF name \in DOMAIN ctxVisited[r] THEN Range(ctxVisited[r][name]) ELSE {}

\* C26: when no available version satisfies a dependency's declared range,
\* its node has resolvedVersion null, carries a conflict issue and no error
\* issue, has no children, and the run returns; the node adds no version to
\* visited (every version recorded for its name is the resolved version of a
\* node), so its name is a key of duplicates only when other nodes of that
\* name resolve to two or more distinct versions.
C26_NoSatisfyingVersion ==
  \A r \in Runs : Done(r) =>
    \A x \in TreeNodes(result[r].tree) :
      LET node == x[2]
      IN  (x[1] <= options[r].maxDepth /\ NoVersionSatisfies(node.name, node.declaredRange)) =>
            /\ node.resolvedVersion = Null
            /\ Cardinality(IssuesOfType(node, "conflict")) = 1
            /\ IssuesOfType(node, "error") = {}
            /\ node.children = <<>>
            /\ node.edges = <<>>
            /\ VisitedVersions(r, node.name) = ResolvedVersionsIn(result[r].tree, node.name)
            /\ node.name \in DOMAIN result[r].duplicates =>
                 Cardinality(ResolvedVersionsIn(result[r].tree, node.name)) >= 2

\* C26 witness: a returned tree with a node for B ^3.0.0, which no version
\* of B satisfies, and another node of B that resolved; B is recorded once
\* and is no key of duplicates
C26_Witness ==
  \E r \in Runs :
    /\ Done(r)
    /\ \E x \in TreeNodes(result[r].tree) :
         /\ x[2].name = "B"
         /\ x[2].declaredRange = "^3.0.0"
         /\ x[2].resolvedVersion = Null
         /\ IssuesOfType(x[2], "conflict") # {}
    /\ Cardinality(VisitedVersions(r, "B")) = 1
    /\ "B" \notin DOMAIN result[r].duplicates

\* the range is written with a caret
DeclaredCaret(range) == range \in {"^1.0.0", "^2.0.0", "^latest"}

\* C27: for a declared caret range buildRangeAdvice returns the 'new major
\* available' advice issue exactly when resolved and latest are both valid
\* versions and major(latest) > major(resolved), and returns no issue
\* otherwise.
C27_NewMajorAdvice ==
  (applied = 1 /\ DeclaredCaret(input.range)) =>
    IF /\ semverValid(input.resolved)
       /\ semverValid(input.latest)
       /\ semverMajor(input.latest) > semverMajor(input.resolved)
    THEN /\ Len(output) = 1
         /\ output[1].type = "advice"
         /\ output[1].message[1] = "new-major"
         /\ input.latest \in Range(output[1].message)
    ELSE output = <<>>

\* C27 witness: the advice for ^1.0.0 resolved to 1.0.0 while 2.0.0 is the
\* latest: the range was normalized to >=1.0.0 <2.0.0-0 and no issue is
\* returned
C27_Witness ==
  /\ applied = 1
  /\ input.range = "^1.0.0"
  /\ input.resolved = "1.0.0"
  /\ input.latest = "2.0.0"
  /\ normalizeRange(input.range) = ">=1.0.0 <2.0.0-0"
  /\ output = <<>>

\* the stored analysisResult is what the manifest and includeDev of now
\* resolve to
AnalysisUpToDate ==
  app.analysisResult =
    ResolvePackageGraphAlone(app.analysisPackage, AppOptions(app.analysisIncludeDev))

\* C28: in the analysis zone, whenever analysisLoading is false and
\* analysisPendingChanges is false, the stored analysisResult was computed
\* from the current analysisPackage and the current includeDev setting; an
\* edit or toggle made while a run is in flight is never followed by a state
\* that reports the old run's result as up to date.
C28_ResultIsCurrent ==
  (~app.analysisLoading /\ ~app.analysisPendingChanges) => AnalysisUpToDate

\* C28 witness: no analysis is loading, no change is pending, and the stored
\* result is that of a run started before the manifest was replaced
C28_Witness ==
  /\ ~app.analysisLoading
  /\ ~app.analysisPendingChanges
  /\ app.analysisError = <<>>
  /\ app.analysisPackage = DEFAULT_TARGET
  /\ app.analysisResult = ResolvePackageGraphAlone(DEFAULT_ANALYSIS, AppOptions(FALSE))
  /\ ~AnalysisUpToDate

\* the runs of resolvePackageGraph in flight
RunsInFlight == {r \in Runs : phase[r] \in {"running", "done", "raised"}}

\* a run is in flight exactly while the analysis is loading, and it is the
\* one run the handler awaits
OneRunWhileLoading ==
  /\ Cardinality(RunsInFlight) <= 1
  /\ app.analysisLoading <=> RunsInFlight # {}
  /\ app.analysisLoading => RunsInFlight = {app.analysisRun}

\* a resolution starts only in a step that turns analysisLoading from false
\* to true, and an invocation of the handler while loading changes nothing
NoStartWhileLoading ==
  /\ \A r \in Runs :
       (phase[r] = "idle" /\ phase'[r] = "running") =>
          (~app.analysisLoading /\ app'.analysisLoading)
  /\ (handleAnalyzePackage /\ app.analysisLoading) => UNCHANGED vars

\* C29: at most one analysis started by handleAnalyzePackage is in flight at
\* any time: an invocation while analysisLoading is true starts no resolution
\* and changes no state, and analysisLoading becomes false again after every
\* run, whether it returns or raises.
C29_OneAnalysisInFlight ==
  /\ []OneRunWhileLoading
  /\ [][NoStartWhileLoading]_vars
  /\ (app.analysisLoading ~> ~app.analysisLoading)

\* C29 witness: an analysis has raised and the handler has set loading back
\* to false, no run is in flight
C29_Witness ==
  /\ ~app.analysisLoading
  /\ app.analysisError = UnexpectedError
  /\ app.analysisPendingChanges
  /\ RunsInFlight = {}
  /\ app.analysisResult # Absent

\* the step in which handleComparePackages leaves its await with a run of
\* its batch raised
FailedBatchSettles ==
  /\ app.comparisonLoading
  /\ ~app'.comparisonLoading
  /\ \E r \in Runs : phase[r] = "raised"

\* C30: when a resolution run started by handleComparePackages raises, for
\* either manifest of the comparison, the previously stored results are left
\* unchanged (no result of the failed batch is stored, not even that of the
\* manifest that resolved), exactly one top-level error message is set,
\* pendingChanges is true and loading is false.
C30_FailedBatchStoresNothing ==
  [][FailedBatchSettles =>
       /\ app'.comparisonResults = app.comparisonResults
       /\ app'.comparisonError = UnexpectedError
       /\ app'.comparisonPendingChanges
       /\ ~app'.comparisonLoading]_vars

\* C30 witness: a batch has failed after an earlier one succeeded: the error
\* is set, the results of the earlier batch are kept although the manifests
\* have changed, and the run of the failed batch that returned is dropped
C30_Witness ==
  /\ ~app.comparisonLoading
  /\ app.comparisonError = UnexpectedError
  /\ app.comparisonPendingChanges
  /\ app.comparisonResults.current # Absent
  /\ \E r \in Runs :
       /\ phase[r] = "done"
       /\ result[r] \notin {app.comparisonResults.current, app.comparisonResults.target}

====
